---- MODULE Spec2Model ----
(***************************************************************************)
(* Payment settlement engine of the swish contracts.                       *)
(*                                                                         *)
(* PaymentProcessor.sol is modelled call by call.  A call is one EVM       *)
(* transaction: the code operators below compute the storage and token     *)
(* state the call has staged when it returns or reverts, and the actions   *)
(* commit that staged state only when the call did not revert.             *)
(*                                                                         *)
(* Idealisations: keccak256 over abi.encodePacked of fixed-width fields is *)
(* injective, so a hash is the tuple of its fields; ECDSA.recover yields   *)
(* the signer exactly when the digest is the signed one.  The token is the *)
(* OpenZeppelin ERC20 of the test-suite (no callbacks, no transfer fee).   *)
(* Token amounts of the processor stay far below 2^256, so its checked    *)
(* arithmetic never overflows; the Token Registry's conversion is computed *)
(* in exact 256-bit checked arithmetic.                                    *)
(***************************************************************************)
EXTENDS Integers, Sequences, FiniteSets, TLC

VARIABLES
    roles,                  \* AccessControl: role -> set of accounts
    feeCollector,           \* PaymentProcessor.feeCollector
    platformFeePercentage,  \* PaymentProcessor.platformFeePercentage (bps)
    payments,               \* mapping(bytes32 => PaymentRecord)
    processedPayments,      \* mapping(bytes32 => bool), as the set of true keys
    balanceOf,              \* token balances
    allowance,              \* token allowance granted to the processor, per owner
    now,                    \* block.timestamp
    txCount,                \* number of transactions mined so far
    last,                   \* outcome of the latest transaction (history)
    race,                   \* two calls submitted together, and what became of each
    schedulerRoles,         \* RecurringPayment's AccessControl: role -> set of accounts
    recurringPayments,      \* RecurringPayment.recurringPayments
    userRecurringPayments,  \* RecurringPayment.userRecurringPayments
    userReceivedPayments,   \* RecurringPayment.userReceivedPayments
    cancelled,              \* ids on which cancelRecurringPayment has succeeded (history)
    documentRoles,          \* DocumentRegistry's AccessControl: role -> set of accounts
    documents,              \* DocumentRegistry.documents
    userDocuments,          \* DocumentRegistry.userDocuments
    tokenRegistry,          \* PaymentProcessor.tokenRegistry
    tokenRegistryRoles,     \* TokenRegistry's AccessControl: role -> set of accounts
    tokenInfos,             \* TokenRegistry.tokenInfos
    priceFeeds,             \* TokenRegistry.priceFeeds
    supportedTokens,        \* TokenRegistry.supportedTokens
    invoices,               \* the Invoice collection: _id -> document
    requests,               \* calls of InvoiceService.processInvoicePayment in progress
    settled                 \* payments the backend's transactions made on chain (history)

ppVars    == <<roles, feeCollector, platformFeePercentage, payments, processedPayments>>
tokenVars == <<balanceOf, allowance>>
schedulerVars == <<schedulerRoles, recurringPayments, userRecurringPayments,
                   userReceivedPayments, cancelled>>
documentVars  == <<documentRoles, documents, userDocuments>>
tokenRegistryVars == <<tokenRegistryRoles, tokenInfos, priceFeeds, supportedTokens>>
backendVars == <<invoices, requests, settled>>
vars      == <<roles, feeCollector, platformFeePercentage, payments,
               processedPayments, balanceOf, allowance, now, txCount, last, race,
               schedulerRoles, recurringPayments, userRecurringPayments,
               userReceivedPayments, cancelled, documentRoles, documents, userDocuments,
               tokenRegistry, tokenRegistryRoles, tokenInfos, priceFeeds, supportedTokens,
               invoices, requests, settled>>

----------------------------------------------------------------------------
(* Bounds of the model *)
MaxBatch == 2
MaxTime  == 2
MaxTx    == 3
InitialBalance == 100000100

(* Program constants *)
MAX_FEE        == 500
FEE_PERCENTAGE == 250
BPS_DENOMINATOR == 10000

(* Addresses *)
NullAddr       == "0x0"
admin          == "admin"
paymentManager == "paymentManager"
payer          == "payer"
payee          == "payee"
collector      == "collector"
processor      == "processor"
scheduler      == "scheduler"
mockToken      == "MTK"
UnknownSigner  == "unrelated"

Holders == {admin, paymentManager, payer, payee, collector, processor, scheduler}
Callers == {admin, paymentManager, payer}
Payers  == {admin, payer}

(* bytes32 values: the empty tuple is bytes32(0), a one-element tuple is a  *)
(* value chosen by a caller, a longer tuple is the keccak256 of its fields *)
ZeroId   == <<>>
PaymentIds == {ZeroId, <<"p1">>, <<"p2">>}
ReferenceHashes == {<<"h1">>, <<"h2">>}

DEFAULT_ADMIN_ROLE   == "DEFAULT_ADMIN_ROLE"
ADMIN_ROLE           == "ADMIN_ROLE"
PAYMENT_MANAGER_ROLE == "PAYMENT_MANAGER_ROLE"
RoleNames == {DEFAULT_ADMIN_ROLE, ADMIN_ROLE, PAYMENT_MANAGER_ROLE}

SubscriptionIds == {ZeroId, <<"s1">>}
DocHashes == {ZeroId, <<"d1">>, <<"d2">>}

(* Inputs *)
Payees       == {payee, processor}
Amounts      == {50, 100000000}
FeeInputs    == {0, FEE_PERCENTAGE, MAX_FEE + 1}
CollectorInputs == {NullAddr, collector, processor}
ApproveAmounts  == {49, InitialBalance}
RoleSubjects == {paymentManager}
GrantedRoles == {ADMIN_ROLE, PAYMENT_MANAGER_ROLE}

----------------------------------------------------------------------------
(* AccessControl *)
HasRole(role, account) == account \in roles[role]

(* modifier onlyRole(role) *)
OnlyRole_Open(role, sender) == TRUE

OnlyRole(role, sender) == HasRole(role, sender)

(* PaymentRecord, and the all-zero struct an unset mapping slot reads as *)
PaymentRecord(id, sender, to, token, amount, fee, time, ref) ==
    [paymentId |-> id, payer |-> sender, payee |-> to, tokenAddress |-> token,
     amount |-> amount, feeAmount |-> fee, timestamp |-> time, referenceHash |-> ref]

ZeroRecord == PaymentRecord(ZeroId, NullAddr, NullAddr, NullAddr, 0, 0, 0, ZeroId)

(* floor(a * b / d), evaluated as q*b + floor(r*b/d) with a = q*d + r so    *)
(* that no intermediate product leaves the range of TLC's integers *)
MulDiv(a, b, d) == (a \div d) * b + ((a % d) * b) \div d

FeeOf_PerMille(amount) == MulDiv(amount, platformFeePercentage, 1000)

FeeOf(amount) == MulDiv(amount, platformFeePercentage, BPS_DENOMINATOR)

(* keccak256(abi.encodePacked(...)) *)
PaymentHash_Salted(id, to, token, amount) == <<id, to, token, amount, now>>

PaymentHash(id, to, token, amount) == <<id, to, token, amount>>
MessageHash(id, to, token, amount, ref) == <<id, to, token, amount, ref>>
EthSignedMessageHash(h) == <<"Ethereum Signed Message:32", h>>

(* Signatures: the empty byte string, or a 65-byte signature by a key over a digest *)
EmptySignature == [signer |-> NullAddr, digest |-> <<>>]
Sign(key, digest) == [signer |-> key, digest |-> digest]

Recover_AnyDigest(digest, sig) ==
    IF sig = EmptySignature
    THEN [ok |-> FALSE, signer |-> NullAddr]
    ELSE [ok |-> TRUE, signer |-> sig.signer]

Recover(digest, sig) ==
    IF sig = EmptySignature
    THEN [ok |-> FALSE, signer |-> NullAddr]
    ELSE IF sig.digest = digest
         THEN [ok |-> TRUE, signer |-> sig.signer]
         ELSE [ok |-> TRUE, signer |-> UnknownSigner]

(* ERC20 *)
SafeTransferFrom_NoBalanceCheck(bal, allow, from, to, amount) ==
    IF to = NullAddr \/ allow[from] < amount
    THEN [ok |-> FALSE, bal |-> bal, allow |-> allow]
    ELSE LET debited == [bal EXCEPT ![from] = @ - amount]
         IN  [ok |-> TRUE,
              bal |-> [debited EXCEPT ![to] = @ + amount],
              allow |-> [allow EXCEPT ![from] = @ - amount]]

SafeTransferFrom(bal, allow, from, to, amount) ==
    IF to = NullAddr \/ allow[from] < amount \/ bal[from] < amount
    THEN [ok |-> FALSE, bal |-> bal, allow |-> allow]
    ELSE LET debited == [bal EXCEPT ![from] = @ - amount]
         IN  [ok |-> TRUE,
              bal |-> [debited EXCEPT ![to] = @ + amount],
              allow |-> [allow EXCEPT ![from] = @ - amount]]

SafeTransfer(bal, from, to, amount) ==
    IF to = NullAddr \/ bal[from] < amount
    THEN [ok |-> FALSE, bal |-> bal]
    ELSE LET debited == [bal EXCEPT ![from] = @ - amount]
         IN  [ok |-> TRUE, bal |-> [debited EXCEPT ![to] = @ + amount]]

(* The state a call has staged when it stops, with its outcome *)
Outcome(ok, reason, pay, proc, bal, allow) ==
    [ok |-> ok, reason |-> reason, payments |-> pay, processedPayments |-> proc,
     balanceOf |-> bal, allowance |-> allow]

Reverted(reason) == Outcome(FALSE, reason, payments, processedPayments, balanceOf, allowance)

----------------------------------------------------------------------------
(* PaymentProcessor.processPayment *)
Authorized_ListedTokens(sender, id, to, token, amount, ref, sig) ==
    IF ~\E sym \in DOMAIN tokenInfos :
            /\ tokenInfos[sym].tokenAddress = token
            /\ tokenInfos[sym].isEnabled
            /\ amount >= tokenInfos[sym].minimumTransferAmount
    THEN [ok |-> FALSE, reason |-> "Token not supported"]
    ELSE IF HasRole(PAYMENT_MANAGER_ROLE, sender)
    THEN [ok |-> TRUE, reason |-> ""]
    ELSE [ok |-> FALSE, reason |-> "Invalid signature"]

Authorized(sender, id, to, token, amount, ref, sig) ==
    IF HasRole(PAYMENT_MANAGER_ROLE, sender)
    THEN [ok |-> TRUE, reason |-> ""]
    ELSE LET messageHash == MessageHash(id, to, token, amount, ref)
             rec == Recover(EthSignedMessageHash(messageHash), sig)
         IN  IF ~rec.ok THEN [ok |-> FALSE, reason |-> "ECDSAInvalidSignatureLength"]
             ELSE IF ~HasRole(PAYMENT_MANAGER_ROLE, rec.signer)
                  THEN [ok |-> FALSE, reason |-> "Invalid signature"]
                  ELSE [ok |-> TRUE, reason |-> ""]

processPaymentAt(allow, sender, id, to, token, amount, ref, sig) ==
    \* the call, entered with the token allowances allow
    LET paymentHash == PaymentHash(id, to, token, amount)
        auth        == Authorized(sender, id, to, token, amount, ref, sig)
        feeAmount   == FeeOf(amount)
        payeeAmount == amount - feeAmount
        proc1 == processedPayments \cup {paymentHash}
        pay1  == [payments EXCEPT ![id] =
                     PaymentRecord(id, sender, to, token, amount, feeAmount, now, ref)]
        t1 == SafeTransferFrom(balanceOf, allow, sender, to, payeeAmount)
        t2 == IF feeAmount > 0
              THEN SafeTransferFrom(t1.bal, t1.allow, sender, feeCollector, feeAmount)
              ELSE t1
    IN  IF to = NullAddr THEN Reverted("Invalid payee")
        ELSE IF token = NullAddr THEN Reverted("Invalid token")
        ELSE IF ~(amount > 0) THEN Reverted("Amount must be greater than 0")
        ELSE IF payments[id].paymentId # ZeroId THEN Reverted("Payment ID already used")
        ELSE IF paymentHash \in processedPayments THEN Reverted("Payment already processed")
        ELSE IF ~auth.ok THEN Reverted(auth.reason)
        ELSE IF ~t1.ok
             THEN Outcome(FALSE, "ERC20: transfer to payee failed", pay1, proc1, t1.bal, t1.allow)
        ELSE IF ~t2.ok
             THEN Outcome(FALSE, "ERC20: transfer to fee collector failed", pay1, proc1, t2.bal, t2.allow)
        ELSE Outcome(TRUE, "", pay1, proc1, t2.bal, t2.allow)

processPayment(sender, id, to, token, amount, ref, sig) ==
    processPaymentAt(allowance, sender, id, to, token, amount, ref, sig)

----------------------------------------------------------------------------
(* PaymentProcessor.processBatchPayment *)
RECURSIVE BatchStage(_, _, _, _, _, _, _)
BatchStage(i, sender, ids, tos, token, amounts, acc) ==
    \* first loop: validate item i, stage its record, accumulate the totals
    IF ~acc.ok \/ i > Len(amounts) THEN acc
    ELSE LET paymentHash == PaymentHash(ids[i], tos[i], token, amounts[i])
             feeAmount   == FeeOf(amounts[i])
             fail(reason) == [acc EXCEPT !.ok = FALSE, !.reason = reason]
         IN  IF tos[i] = NullAddr THEN fail("Invalid payee")
             ELSE IF ~(amounts[i] > 0) THEN fail("Amount must be greater than 0")
             ELSE IF acc.payments[ids[i]].paymentId # ZeroId THEN fail("Payment ID already used")
             ELSE IF paymentHash \in acc.processedPayments THEN fail("Payment already processed")
             ELSE BatchStage(i + 1, sender, ids, tos, token, amounts,
                     [acc EXCEPT
                        !.processedPayments = @ \cup {paymentHash},
                        !.payments = [@ EXCEPT ![ids[i]] =
                            PaymentRecord(ids[i], sender, tos[i], token, amounts[i],
                                          feeAmount, now, acc.refs[i])],
                        !.totalAmount = @ + amounts[i],
                        !.totalFees = @ + feeAmount])

RECURSIVE BatchDistribute(_, _, _, _)
BatchDistribute(i, tos, amounts, t) ==
    \* second loop: pay item i out of the processor's custody
    IF ~t.ok \/ i > Len(tos) THEN t
    ELSE LET feeAmount   == FeeOf(amounts[i])
             payeeAmount == amounts[i] - feeAmount
         IN  BatchDistribute(i + 1, tos, amounts,
                             SafeTransfer(t.bal, processor, tos[i], payeeAmount))

processBatchPayment_KeepsFees(sender, ids, tos, token, amounts, refs) ==
    LET staged == BatchStage(1, sender, ids, tos, token, amounts,
                     [ok |-> TRUE, reason |-> "", payments |-> payments,
                      processedPayments |-> processedPayments,
                      totalAmount |-> 0, totalFees |-> 0, refs |-> refs])
        pull == SafeTransferFrom(balanceOf, allowance, sender, processor, staged.totalAmount)
        dist == BatchDistribute(1, tos, amounts, [ok |-> TRUE, bal |-> pull.bal])
        fees == dist
        out(ok, reason, bal, allow) ==
            Outcome(ok, reason, staged.payments, staged.processedPayments, bal, allow)
    IN  IF ~OnlyRole(PAYMENT_MANAGER_ROLE, sender) THEN Reverted("AccessControlUnauthorizedAccount")
        ELSE IF Len(ids) # Len(tos) \/ Len(tos) # Len(amounts) \/ Len(amounts) # Len(refs)
             THEN Reverted("Array length mismatch")
        ELSE IF token = NullAddr THEN Reverted("Invalid token")
        ELSE IF ~staged.ok THEN out(FALSE, staged.reason, balanceOf, allowance)
        ELSE IF ~pull.ok THEN out(FALSE, "ERC20: pull of total failed", pull.bal, pull.allow)
        ELSE IF ~dist.ok THEN out(FALSE, "ERC20: transfer to payee failed", dist.bal, pull.allow)
        ELSE IF ~fees.ok THEN out(FALSE, "ERC20: transfer to fee collector failed", fees.bal, pull.allow)
        ELSE out(TRUE, "", fees.bal, pull.allow)

processBatchPayment(sender, ids, tos, token, amounts, refs) ==
    LET staged == BatchStage(1, sender, ids, tos, token, amounts,
                     [ok |-> TRUE, reason |-> "", payments |-> payments,
                      processedPayments |-> processedPayments,
                      totalAmount |-> 0, totalFees |-> 0, refs |-> refs])
        pull == SafeTransferFrom(balanceOf, allowance, sender, processor, staged.totalAmount)
        dist == BatchDistribute(1, tos, amounts, [ok |-> TRUE, bal |-> pull.bal])
        fees == IF staged.totalFees > 0
                THEN SafeTransfer(dist.bal, processor, feeCollector, staged.totalFees)
                ELSE dist
        out(ok, reason, bal, allow) ==
            Outcome(ok, reason, staged.payments, staged.processedPayments, bal, allow)
    IN  IF ~OnlyRole(PAYMENT_MANAGER_ROLE, sender) THEN Reverted("AccessControlUnauthorizedAccount")
        ELSE IF Len(ids) # Len(tos) \/ Len(tos) # Len(amounts) \/ Len(amounts) # Len(refs)
             THEN Reverted("Array length mismatch")
        ELSE IF token = NullAddr THEN Reverted("Invalid token")
        ELSE IF ~staged.ok THEN out(FALSE, staged.reason, balanceOf, allowance)
        ELSE IF ~pull.ok THEN out(FALSE, "ERC20: pull of total failed", pull.bal, pull.allow)
        ELSE IF ~dist.ok THEN out(FALSE, "ERC20: transfer to payee failed", dist.bal, pull.allow)
        ELSE IF ~fees.ok THEN out(FALSE, "ERC20: transfer to fee collector failed", fees.bal, pull.allow)
        ELSE out(TRUE, "", fees.bal, pull.allow)

(* event PaymentProcessed, and the events a call emits when it runs to its end *)
PaymentProcessed(id, payer_, to, token, amount, feeAmount, ref) ==
    [name |-> "PaymentProcessed", paymentId |-> id, payer |-> payer_, payee |-> to,
     tokenAddress |-> token, amount |-> amount, feeAmount |-> feeAmount,
     referenceHash |-> ref]

processPaymentEvents(sender, id, to, token, amount, ref) ==
    <<PaymentProcessed(id, sender, to, token, amount, FeeOf(amount), ref)>>

processBatchPaymentEvents(sender, ids, tos, token, amounts, refs) ==
    [i \in 1..Len(tos) |->
        PaymentProcessed(ids[i], sender, tos[i], token, amounts[i], FeeOf(amounts[i]), refs[i])]

(* PaymentProcessor.verifyPayment *)
verifyPayment(id) ==
    [exists |-> payments[id].paymentId # ZeroId, record |-> payments[id]]

----------------------------------------------------------------------------
(* RecurringPayment.sol: the scheduler.  Its paymentProcessor is the        *)
(* processor above; nonReentrant has no effect with a token that makes no  *)
(* callbacks.                                                              *)
RecurringPaymentRecord(id, sender, to, token, amount, frequency, due, active, ref) ==
    [id |-> id, payer |-> sender, payee |-> to, tokenAddress |-> token,
     amount |-> amount, frequency |-> frequency, nextPaymentDue |-> due,
     isActive |-> active, referenceId |-> ref]

ZeroSubscription ==
    RecurringPaymentRecord(ZeroId, NullAddr, NullAddr, NullAddr, 0, 0, 0, FALSE, ZeroId)

HasSchedulerRole(role, account) == account \in schedulerRoles[role]

(* payment.payer == msg.sender || hasRole(PAYMENT_MANAGER_ROLE, msg.sender) *)
MayManage_Anyone(sender, payment) == TRUE

MayManage(sender, payment) ==
    payment.payer = sender \/ HasSchedulerRole(PAYMENT_MANAGER_ROLE, sender)

(* require(payment.isActive, ...) *)
IsActive_Ignored(payment) == TRUE

IsActive(payment) == payment.isActive

(* previousDueDate + payment.frequency *)
NextPaymentDue_FromNow(payment) == now + payment.frequency

NextPaymentDue(payment) == payment.nextPaymentDue + payment.frequency

(* the state a scheduler call has staged when it stops, with its outcome *)
SchedulerOutcome(ok, reason, rp, sent, received, events) ==
    [ok |-> ok, reason |-> reason, recurringPayments |-> rp,
     userRecurringPayments |-> sent, userReceivedPayments |-> received, events |-> events]

SchedulerReverted(reason) ==
    SchedulerOutcome(FALSE, reason, recurringPayments, userRecurringPayments,
                     userReceivedPayments, <<>>)

createRecurringPayment(sender, _id, _payee, _tokenAddress, _amount, _frequency, _firstPaymentDue, _referenceId) ==
    IF _payee = NullAddr THEN SchedulerReverted("Invalid payee")
    ELSE IF _tokenAddress = NullAddr THEN SchedulerReverted("Invalid token")
    ELSE IF ~(_amount > 0) THEN SchedulerReverted("Amount must be greater than 0")
    ELSE IF ~(_frequency > 0) THEN SchedulerReverted("Frequency must be greater than 0")
    ELSE IF ~(_firstPaymentDue > now) THEN SchedulerReverted("First payment must be in future")
    ELSE IF recurringPayments[_id].id # ZeroId THEN SchedulerReverted("ID already exists")
    ELSE SchedulerOutcome(TRUE, "",
            [recurringPayments EXCEPT ![_id] =
                RecurringPaymentRecord(_id, sender, _payee, _tokenAddress, _amount,
                                       _frequency, _firstPaymentDue, TRUE, _referenceId)],
            [userRecurringPayments EXCEPT ![sender] = Append(@, _id)],
            [userReceivedPayments EXCEPT ![_payee] = Append(@, _id)],
            <<[name |-> "RecurringPaymentCreated", id |-> _id]>>)

(* keccak256(abi.encodePacked(...)) of executeRecurringPayment *)
RecurringPaymentId_NoDueDate(payment, previousDueDate) ==
    <<payment.id, payment.payer, payment.payee, now, now>>

RecurringPaymentId(payment, previousDueDate) ==
    <<payment.id, payment.payer, payment.payee, previousDueDate, now>>
RecurringReferenceHash(payment, previousDueDate) ==
    <<"RECURRING", payment.id, previousDueDate>>

executeRecurringPayment(_id) ==
    LET payment == recurringPayments[_id]
        previousDueDate == payment.nextPaymentDue
        rp1 == [recurringPayments EXCEPT ![_id].nextPaymentDue = NextPaymentDue(payment)]
        paymentId == RecurringPaymentId(payment, previousDueDate)
        referenceHash == RecurringReferenceHash(payment, previousDueDate)
        \* token.approve(address(paymentProcessor), payment.amount)
        approved == [allowance EXCEPT ![scheduler] = payment.amount]
        \* the processor sees the scheduler as msg.sender
        call == processPaymentAt(approved, scheduler, paymentId, payment.payee,
                                 payment.tokenAddress, payment.amount, referenceHash,
                                 EmptySignature)
        stopped(reason) == [ok |-> FALSE, reason |-> reason,
                            recurringPayments |-> recurringPayments,
                            call |-> Reverted(reason), paymentId |-> ZeroId]
    IN  IF payment.id = ZeroId THEN stopped("Payment does not exist")
        ELSE IF ~IsActive(payment) THEN stopped("Payment is not active")
        ELSE IF ~(now >= payment.nextPaymentDue) THEN stopped("Payment not due yet")
        ELSE [ok |-> call.ok, reason |-> call.reason, recurringPayments |-> rp1,
              call |-> call, paymentId |-> paymentId]

(* the three require statements at the head of executeRecurringPayment *)
ExecuteChecksPass(_id) ==
    LET payment == recurringPayments[_id]
    IN  payment.id # ZeroId /\ IsActive(payment) /\ now >= payment.nextPaymentDue

isPaymentDue(_id) ==
    LET payment == recurringPayments[_id]
    IN  IF payment.id = ZeroId \/ ~payment.isActive THEN FALSE
        ELSE now >= payment.nextPaymentDue

cancelRecurringPayment(sender, _id) ==
    LET payment == recurringPayments[_id]
    IN  IF payment.id = ZeroId THEN SchedulerReverted("Payment does not exist")
        ELSE IF ~MayManage(sender, payment) THEN SchedulerReverted("Not authorized")
        ELSE SchedulerOutcome(TRUE, "",
                [recurringPayments EXCEPT ![_id].isActive = FALSE],
                userRecurringPayments, userReceivedPayments,
                <<[name |-> "RecurringPaymentCancelled", id |-> _id]>>)

updateRecurringPayment_ResetsDue(sender, _id, _amount, _frequency) ==
    LET payment == recurringPayments[_id]
    IN  IF payment.id = ZeroId THEN SchedulerReverted("Payment does not exist")
        ELSE IF ~IsActive(payment) THEN SchedulerReverted("Payment is not active")
        ELSE IF ~MayManage(sender, payment) THEN SchedulerReverted("Not authorized")
        ELSE IF ~(_amount > 0) THEN SchedulerReverted("Amount must be greater than 0")
        ELSE IF ~(_frequency > 0) THEN SchedulerReverted("Frequency must be greater than 0")
        ELSE SchedulerOutcome(TRUE, "",
                [recurringPayments EXCEPT ![_id].amount = _amount,
                                          ![_id].frequency = _frequency,
                                          ![_id].nextPaymentDue = now + _frequency],
                userRecurringPayments, userReceivedPayments,
                <<[name |-> "RecurringPaymentUpdated", id |-> _id]>>)

updateRecurringPayment(sender, _id, _amount, _frequency) ==
    LET payment == recurringPayments[_id]
    IN  IF payment.id = ZeroId THEN SchedulerReverted("Payment does not exist")
        ELSE IF ~IsActive(payment) THEN SchedulerReverted("Payment is not active")
        ELSE IF ~MayManage(sender, payment) THEN SchedulerReverted("Not authorized")
        ELSE IF ~(_amount > 0) THEN SchedulerReverted("Amount must be greater than 0")
        ELSE IF ~(_frequency > 0) THEN SchedulerReverted("Frequency must be greater than 0")
        ELSE SchedulerOutcome(TRUE, "",
                [recurringPayments EXCEPT ![_id].amount = _amount,
                                          ![_id].frequency = _frequency],
                userRecurringPayments, userReceivedPayments,
                <<[name |-> "RecurringPaymentUpdated", id |-> _id]>>)

----------------------------------------------------------------------------
(* DocumentRegistry.sol *)
DOCUMENT_MANAGER_ROLE == "DOCUMENT_MANAGER_ROLE"
DocumentRoleNames == {DEFAULT_ADMIN_ROLE, ADMIN_ROLE, DOCUMENT_MANAGER_ROLE}

(* enum DocumentType: an unset slot reads as the first member *)
Invoice == "Invoice"
DocumentTypes == {Invoice, "PayrollRecord", "Contract", "Receipt", "Statement", "Other"}

Document(docHash, registeredBy, timestamp, docType, docReference, isRevoked) ==
    [docHash |-> docHash, registeredBy |-> registeredBy, timestamp |-> timestamp,
     docType |-> docType, docReference |-> docReference, isRevoked |-> isRevoked]

ZeroDocument == Document(ZeroId, NullAddr, 0, Invoice, "", FALSE)

HasDocumentRole(role, account) == account \in documentRoles[role]

RegistryOutcome(ok, reason, docs, index, events) ==
    [ok |-> ok, reason |-> reason, documents |-> docs, userDocuments |-> index,
     events |-> events]

RegistryReverted(reason) == RegistryOutcome(FALSE, reason, documents, userDocuments, <<>>)

(* the body shared by registerDocument and one round of batchRegisterDocuments *)
RegisterOne_NoDuplicateCheck(acc, sender, _docHash, _docType, _docReference) ==
    IF ~acc.ok THEN acc
    ELSE IF _docHash = ZeroId
         THEN [acc EXCEPT !.ok = FALSE, !.reason = "Invalid document hash"]
    ELSE RegistryOutcome(TRUE, "",
            [acc.documents EXCEPT ![_docHash] =
                Document(_docHash, sender, now, _docType, _docReference, FALSE)],
            [acc.userDocuments EXCEPT ![sender] = Append(@, _docHash)],
            Append(acc.events, [name |-> "DocumentRegistered", docHash |-> _docHash,
                                registeredBy |-> sender]))

RegisterOne(acc, sender, _docHash, _docType, _docReference) ==
    IF ~acc.ok THEN acc
    ELSE IF _docHash = ZeroId
         THEN [acc EXCEPT !.ok = FALSE, !.reason = "Invalid document hash"]
    ELSE IF acc.documents[_docHash].docHash # ZeroId
         THEN [acc EXCEPT !.ok = FALSE, !.reason = "Document already registered"]
    ELSE RegistryOutcome(TRUE, "",
            [acc.documents EXCEPT ![_docHash] =
                Document(_docHash, sender, now, _docType, _docReference, FALSE)],
            [acc.userDocuments EXCEPT ![sender] = Append(@, _docHash)],
            Append(acc.events, [name |-> "DocumentRegistered", docHash |-> _docHash,
                                registeredBy |-> sender]))

registerDocument(sender, _docHash, _docType, _docReference) ==
    IF ~HasDocumentRole(DOCUMENT_MANAGER_ROLE, sender)
    THEN RegistryReverted("AccessControlUnauthorizedAccount")
    ELSE RegisterOne(RegistryOutcome(TRUE, "", documents, userDocuments, <<>>),
                     sender, _docHash, _docType, _docReference)

RECURSIVE BatchRegister(_, _, _, _, _, _)
BatchRegister(i, sender, _docHashes, _docTypes, _docReferences, acc) ==
    IF ~acc.ok \/ i > Len(_docHashes) THEN acc
    ELSE BatchRegister(i + 1, sender, _docHashes, _docTypes, _docReferences,
                       RegisterOne(acc, sender, _docHashes[i], _docTypes[i],
                                   _docReferences[i]))

batchRegisterDocuments(sender, _docHashes, _docTypes, _docReferences) ==
    IF ~HasDocumentRole(DOCUMENT_MANAGER_ROLE, sender)
    THEN RegistryReverted("AccessControlUnauthorizedAccount")
    ELSE IF Len(_docHashes) # Len(_docTypes) \/ Len(_docTypes) # Len(_docReferences)
         THEN RegistryReverted("Array length mismatch")
    ELSE BatchRegister(1, sender, _docHashes, _docTypes, _docReferences,
                       RegistryOutcome(TRUE, "", documents, userDocuments, <<>>))

revokeDocument_NoRevokedCheck(sender, _docHash, _reason) ==
    IF ~HasDocumentRole(DOCUMENT_MANAGER_ROLE, sender)
    THEN RegistryReverted("AccessControlUnauthorizedAccount")
    ELSE IF documents[_docHash].docHash = ZeroId THEN RegistryReverted("Document not registered")
    ELSE RegistryOutcome(TRUE, "", [documents EXCEPT ![_docHash].isRevoked = TRUE],
                         userDocuments,
                         <<[name |-> "DocumentRevoked", docHash |-> _docHash,
                            revokedBy |-> sender, reason |-> _reason]>>)

revokeDocument_ClearsRecord(sender, _docHash, _reason) ==
    IF ~HasDocumentRole(DOCUMENT_MANAGER_ROLE, sender)
    THEN RegistryReverted("AccessControlUnauthorizedAccount")
    ELSE IF documents[_docHash].docHash = ZeroId THEN RegistryReverted("Document not registered")
    ELSE IF documents[_docHash].isRevoked THEN RegistryReverted("Document already revoked")
    ELSE RegistryOutcome(TRUE, "",
                         [documents EXCEPT ![_docHash] = [ZeroDocument EXCEPT !.docHash = _docHash,
                                                                              !.isRevoked = TRUE]],
                         userDocuments,
                         <<[name |-> "DocumentRevoked", docHash |-> _docHash,
                            revokedBy |-> sender, reason |-> _reason]>>)

revokeDocument(sender, _docHash, _reason) ==
    IF ~HasDocumentRole(DOCUMENT_MANAGER_ROLE, sender)
    THEN RegistryReverted("AccessControlUnauthorizedAccount")
    ELSE IF documents[_docHash].docHash = ZeroId THEN RegistryReverted("Document not registered")
    ELSE IF documents[_docHash].isRevoked THEN RegistryReverted("Document already revoked")
    ELSE RegistryOutcome(TRUE, "", [documents EXCEPT ![_docHash].isRevoked = TRUE],
                         userDocuments,
                         <<[name |-> "DocumentRevoked", docHash |-> _docHash,
                            revokedBy |-> sender, reason |-> _reason]>>)

verifyDocument(_docHash) ==
    LET documentData == documents[_docHash]
        exists == documentData.docHash # ZeroId
    IN  [exists |-> exists, isValid |-> exists /\ ~documentData.isRevoked,
         documentData |-> documentData]

----------------------------------------------------------------------------
(* uint256 arithmetic of the Token Registry.  Prices are scaled by 1e8 and  *)
(* amounts of an 18-decimal token reach 1e18 and more, so a uint256 is      *)
(* written as the sequence of its digits in base 10000, least significant  *)
(* first and without leading zeros: <<>> is 0 and <<0, 30>> is 300000.      *)
(* Checked arithmetic reverts when a result does not fit 256 bits.         *)
Base == 10000

RECURSIVE Big(_)
Big(n) == IF n = 0 THEN <<>> ELSE <<n % Base>> \o Big(n \div Base)

RECURSIVE Trim(_)
Trim(a) ==
    IF a = <<>> THEN a
    ELSE IF a[Len(a)] = 0 THEN Trim(SubSeq(a, 1, Len(a) - 1)) ELSE a

Rest(a) == IF a = <<>> THEN <<>> ELSE Tail(a)
Low(a)  == IF a = <<>> THEN 0 ELSE Head(a)

RECURSIVE AddDigits(_, _, _)
AddDigits(a, b, carry) ==
    IF a = <<>> /\ b = <<>>
    THEN IF carry = 0 THEN <<>> ELSE <<carry>>
    ELSE LET sum == Low(a) + Low(b) + carry
         IN  <<sum % Base>> \o AddDigits(Rest(a), Rest(b), sum \div Base)

BigAdd(a, b) == AddDigits(a, b, 0)

BigLess(a, b) ==
    IF Len(a) # Len(b) THEN Len(a) < Len(b)
    ELSE \E i \in 1..Len(a) : a[i] < b[i] /\ \A j \in (i + 1)..Len(a) : a[j] = b[j]

BigLeq(a, b) == a = b \/ BigLess(a, b)

(* a - b for a >= b *)
RECURSIVE SubDigits(_, _, _)
SubDigits(a, b, borrow) ==
    IF a = <<>> THEN <<>>
    ELSE LET d == Head(a) - Low(b) - borrow
         IN  <<(d + Base) % Base>> \o SubDigits(Tail(a), Rest(b), IF d < 0 THEN 1 ELSE 0)

BigSub(a, b) == Trim(SubDigits(a, b, 0))

(* a * d for d <= Base *)
RECURSIVE ScaleDigits(_, _, _)
ScaleDigits(a, d, carry) ==
    IF a = <<>>
    THEN IF carry = 0 THEN <<>> ELSE <<carry>>
    ELSE LET p == Head(a) * d + carry
         IN  <<p % Base>> \o ScaleDigits(Tail(a), d, p \div Base)

BigScale(a, d) == Trim(ScaleDigits(a, d, 0))

BigShift(a) == IF a = <<>> THEN <<>> ELSE <<0>> \o a

RECURSIVE BigMul(_, _)
BigMul(a, b) ==
    IF b = <<>> THEN <<>>
    ELSE BigAdd(BigScale(a, Head(b)), BigShift(BigMul(a, Tail(b))))

(* 10 ** k *)
BigPow10(k) ==
    [i \in 1..((k \div 4) + 1) |->
        IF i = (k \div 4) + 1 THEN <<1, 10, 100, 1000>>[(k % 4) + 1] ELSE 0]

(* the largest decimal digit d with b * (above + d * unit) <= part *)
QuotientDigit(part, b, above, unit) ==
    CHOOSE d \in 0..9 :
        /\ BigLeq(BigScale(b, above + d * unit), part)
        /\ BigLess(part, BigScale(b, above + (d + 1) * unit))

(* floor(part / b) for part < b * Base *)
QuotientLimb(part, b) ==
    LET d3 == QuotientDigit(part, b, 0, 1000)
        d2 == QuotientDigit(part, b, d3 * 1000, 100)
        d1 == QuotientDigit(part, b, d3 * 1000 + d2 * 100, 10)
    IN  d3 * 1000 + d2 * 100 + d1 * 10
           + QuotientDigit(part, b, d3 * 1000 + d2 * 100 + d1 * 10, 1)

(* floor(a / b) for b > 0, by long division from the most significant digit: *)
(* rem is the remainder carried into digit i                                *)
RECURSIVE DivDigits(_, _, _, _)
DivDigits(a, b, i, rem) ==
    IF i = 0 THEN <<>>
    ELSE LET part == Trim(<<a[i]>> \o rem)
             q == QuotientLimb(part, b)
         IN  DivDigits(a, b, i - 1, BigSub(part, BigScale(b, q))) \o <<q>>

BigDiv(a, b) == Trim(DivDigits(a, b, Len(a), <<>>))

(* type(uint256).max = 2^256 - 1 *)
MaxUint256 ==
    <<9935, 2963, 9131, 4007, 5758, 394, 564, 6564, 9846, 3269,
      785, 6879, 5008, 7098, 4235, 6195, 3731, 892, 5792, 11>>

FitsUint256(x) == BigLeq(x, MaxUint256)

----------------------------------------------------------------------------
(* TokenRegistry.sol *)
PRICE_FEEDER_ROLE == "PRICE_FEEDER_ROLE"
TokenRegistryRoleNames == {DEFAULT_ADMIN_ROLE, ADMIN_ROLE, PRICE_FEEDER_ROLE}

registry  == "registry"
registry2 == "registry2"
admin2    == "admin2"
feeder    == "feeder"

Symbols == {"", "USDC", "ETH", "WIDE"}

TokenInfo(symbol, tokenAddress, decimals, isEnabled, minimumTransferAmount) ==
    [symbol |-> symbol, tokenAddress |-> tokenAddress, decimals |-> decimals,
     isEnabled |-> isEnabled, minimumTransferAmount |-> minimumTransferAmount]

PriceFeed(feedAddress, lastPrice, lastUpdateTimestamp) ==
    [feedAddress |-> feedAddress, lastPrice |-> lastPrice,
     lastUpdateTimestamp |-> lastUpdateTimestamp]

ZeroTokenInfo == TokenInfo("", NullAddr, 0, FALSE, 0)
ZeroPriceFeed == PriceFeed(NullAddr, <<>>, 0)

HasTokenRegistryRole(role, account) == account \in tokenRegistryRoles[role]

(* the state a registry call has staged when it stops, with its outcome *)
TokenOutcome(ok, reason, infos, feeds, supported, events) ==
    [ok |-> ok, reason |-> reason, tokenInfos |-> infos, priceFeeds |-> feeds,
     supportedTokens |-> supported, events |-> events]

TokenReverted(reason) == TokenOutcome(FALSE, reason, tokenInfos, priceFeeds, supportedTokens, <<>>)

TokenExists(_symbol) == tokenInfos[_symbol].tokenAddress # NullAddr

addToken(sender, _symbol, _tokenAddress, _decimals, _minimumTransferAmount) ==
    IF ~HasTokenRegistryRole(ADMIN_ROLE, sender)
    THEN TokenReverted("AccessControlUnauthorizedAccount")
    ELSE IF _symbol = "" THEN TokenReverted("Symbol cannot be empty")
    ELSE IF _tokenAddress = NullAddr THEN TokenReverted("Invalid token address")
    ELSE IF TokenExists(_symbol) THEN TokenReverted("Token already exists")
    ELSE TokenOutcome(TRUE, "",
             [tokenInfos EXCEPT ![_symbol] =
                 TokenInfo(_symbol, _tokenAddress, _decimals, TRUE, _minimumTransferAmount)],
             priceFeeds,
             Append(supportedTokens, _symbol),
             <<[name |-> "TokenAdded", symbol |-> _symbol, tokenAddress |-> _tokenAddress,
                decimals |-> _decimals, minimumTransferAmount |-> _minimumTransferAmount]>>)

updateToken(sender, _symbol, _isEnabled, _minimumTransferAmount) ==
    IF ~HasTokenRegistryRole(ADMIN_ROLE, sender)
    THEN TokenReverted("AccessControlUnauthorizedAccount")
    ELSE IF ~TokenExists(_symbol) THEN TokenReverted("Token does not exist")
    ELSE TokenOutcome(TRUE, "",
             [tokenInfos EXCEPT ![_symbol].isEnabled = _isEnabled,
                                ![_symbol].minimumTransferAmount = _minimumTransferAmount],
             priceFeeds, supportedTokens,
             <<[name |-> "TokenUpdated", symbol |-> _symbol, isEnabled |-> _isEnabled,
                minimumTransferAmount |-> _minimumTransferAmount]>>)

setPriceFeed(sender, _symbol, _feedAddress) ==
    IF ~HasTokenRegistryRole(ADMIN_ROLE, sender)
    THEN TokenReverted("AccessControlUnauthorizedAccount")
    ELSE IF ~TokenExists(_symbol) THEN TokenReverted("Token does not exist")
    ELSE IF _feedAddress = NullAddr THEN TokenReverted("Invalid feed address")
    ELSE TokenOutcome(TRUE, "", tokenInfos,
             [priceFeeds EXCEPT ![_symbol].feedAddress = _feedAddress],
             supportedTokens,
             <<[name |-> "PriceFeedUpdated", symbol |-> _symbol, feedAddress |-> _feedAddress,
                price |-> priceFeeds[_symbol].lastPrice]>>)

updatePrice_ByAdmin(sender, _symbol, _price) ==
    IF ~HasTokenRegistryRole(ADMIN_ROLE, sender)
    THEN TokenReverted("AccessControlUnauthorizedAccount")
    ELSE IF ~TokenExists(_symbol) THEN TokenReverted("Token does not exist")
    ELSE TokenOutcome(TRUE, "", tokenInfos,
             [priceFeeds EXCEPT ![_symbol].lastPrice = _price,
                                ![_symbol].lastUpdateTimestamp = now],
             supportedTokens,
             <<[name |-> "PriceFeedUpdated", symbol |-> _symbol,
                feedAddress |-> priceFeeds[_symbol].feedAddress, price |-> _price]>>)

updatePrice(sender, _symbol, _price) ==
    IF ~HasTokenRegistryRole(PRICE_FEEDER_ROLE, sender)
    THEN TokenReverted("AccessControlUnauthorizedAccount")
    ELSE IF ~TokenExists(_symbol) THEN TokenReverted("Token does not exist")
    ELSE TokenOutcome(TRUE, "", tokenInfos,
             [priceFeeds EXCEPT ![_symbol].lastPrice = _price,
                                ![_symbol].lastUpdateTimestamp = now],
             supportedTokens,
             <<[name |-> "PriceFeedUpdated", symbol |-> _symbol,
                feedAddress |-> priceFeeds[_symbol].feedAddress, price |-> _price]>>)

(* checked uint256 arithmetic reverts with Panic(0x11) on overflow *)
Panic == "Panic(0x11)"
Converted(value) == [ok |-> TRUE, reason |-> "", value |-> value]
NotConverted(reason) == [ok |-> FALSE, reason |-> reason]

(* convertAmount past its identity short-circuit *)
ConvertByPrice_SameDecimals(_fromSymbol, _toSymbol, _amount) ==
    IF priceFeeds[_fromSymbol].lastPrice = <<>>
    THEN NotConverted("Source token price not available")
    ELSE IF priceFeeds[_toSymbol].lastPrice = <<>>
    THEN NotConverted("Destination token price not available")
    ELSE LET product == BigMul(_amount, priceFeeds[_fromSymbol].lastPrice)
         IN  IF ~FitsUint256(product) THEN NotConverted(Panic)
             ELSE Converted(BigDiv(product, priceFeeds[_toSymbol].lastPrice))

ConvertByPrice(_fromSymbol, _toSymbol, _amount) ==
    IF priceFeeds[_fromSymbol].lastPrice = <<>>
    THEN NotConverted("Source token price not available")
    ELSE IF priceFeeds[_toSymbol].lastPrice = <<>>
    THEN NotConverted("Destination token price not available")
    ELSE LET fromDecimals == tokenInfos[_fromSymbol].decimals
             toDecimals   == tokenInfos[_toSymbol].decimals
             product      == BigMul(_amount, priceFeeds[_fromSymbol].lastPrice)
             valueInUSD   == BigDiv(product, BigPow10(fromDecimals))
             scaled       == BigMul(valueInUSD, BigPow10(toDecimals))
         IN  IF ~FitsUint256(product) THEN NotConverted(Panic)
             ELSE IF ~FitsUint256(BigPow10(fromDecimals)) THEN NotConverted(Panic)
             ELSE IF ~FitsUint256(BigPow10(toDecimals)) THEN NotConverted(Panic)
             ELSE IF ~FitsUint256(scaled) THEN NotConverted(Panic)
             ELSE Converted(BigDiv(scaled, priceFeeds[_toSymbol].lastPrice))

convertAmount_AnySymbol(_fromSymbol, _toSymbol, _amount) ==
    IF _fromSymbol = _toSymbol THEN Converted(_amount)
    ELSE IF ~TokenExists(_fromSymbol) THEN NotConverted("Source token does not exist")
    ELSE IF ~TokenExists(_toSymbol) THEN NotConverted("Destination token does not exist")
    ELSE ConvertByPrice(_fromSymbol, _toSymbol, _amount)

convertAmount(_fromSymbol, _toSymbol, _amount) ==
    IF ~TokenExists(_fromSymbol) THEN NotConverted("Source token does not exist")
    ELSE IF ~TokenExists(_toSymbol) THEN NotConverted("Destination token does not exist")
    ELSE IF _fromSymbol = _toSymbol THEN Converted(_amount)
    ELSE ConvertByPrice(_fromSymbol, _toSymbol, _amount)

getSupportedTokens == supportedTokens

(* grantPriceFeederRole / revokePriceFeederRole: onlyRole(ADMIN_ROLE), then    *)
(* AccessControl.grantRole / revokeRole, which checks the admin role of        *)
(* PRICE_FEEDER_ROLE, DEFAULT_ADMIN_ROLE, on the same msg.sender               *)
MayChangeFeeders(sender) ==
    /\ HasTokenRegistryRole(ADMIN_ROLE, sender)
    /\ HasTokenRegistryRole(DEFAULT_ADMIN_ROLE, sender)

(* PaymentProcessor.setTokenRegistry *)
setTokenRegistry(sender, _tokenRegistry) ==
    IF ~HasRole(ADMIN_ROLE, sender)
    THEN [ok |-> FALSE, reason |-> "AccessControlUnauthorizedAccount", tokenRegistry |-> tokenRegistry]
    ELSE IF _tokenRegistry = NullAddr
    THEN [ok |-> FALSE, reason |-> "Invalid token registry", tokenRegistry |-> tokenRegistry]
    ELSE [ok |-> TRUE, reason |-> "", tokenRegistry |-> _tokenRegistry]

(* The backend: InvoiceService and BlockchainService *)
MaxCalls == 3
Calls == 1..MaxCalls

(* crypto.randomUUID(): 36 characters, a new value on every call *)
Uuids ==
    <<"a4c123b1-612d-4d27-8d13-71c17149d439",
      "536b3216-fdae-4eb9-9572-9fae923d5a4f",
      "d12aabfe-228f-4219-b9cb-0eb53f16947c",
      "cf25ec84-d8db-4c74-8547-70f58904dba4">>
randomUUID(c) == Uuids[c]

(* crypto.createHash("sha256").update(referenceData).digest("hex"): 64 characters; *)
(* referenceData holds Date.now()                                                  *)
Digests ==
    <<"1ecccc3fc1626e53a13043b026c48bbf33feff9243a8f506b40928b5b7a767c7",
      "6fb008f86bebb2737f6a6f0fb23c6f5da2cec255404e4fb440034d6608697a8d",
      "41bed440e50454f31af3176813e02ea68ef786e4d3cea27d26934b484e73cf57",
      "5dcad6ba2b0aee0ca923732881584d8c4fa2815d2802827283e0ad8417358156">>
sha256Hex(c) == Digests[c]

InvoiceIds == {"inv1", "inv2"}
InvoiceStatuses == {"draft", "sent", "paid"}
NoInvoice == [status |-> "", payment |-> ""]
NoResult == [success |-> FALSE, error |-> "", paymentId |-> <<>>]
IdleRequest == [pc |-> "idle", invoiceId |-> "", found |-> NoInvoice, paymentId |-> "",
                result |-> NoResult, error |-> ""]

(* one stored invoice (createInvoice stores status "draft"); "inv2" is stored nowhere *)
BackendStarted ==
    /\ invoices = [id \in InvoiceIds |->
                     IF id = "inv1" THEN [status |-> "draft", payment |-> ""] ELSE NoInvoice]
    /\ requests = [c \in Calls |-> IdleRequest]
    /\ settled = {}

(* constructor of TokenRegistry, and the registry the processor is deployed with *)
TokenRegistryDeployed ==
    /\ tokenRegistryRoles = [r \in TokenRegistryRoleNames |-> {admin}]
    /\ tokenInfos = [sym \in Symbols |-> ZeroTokenInfo]
    /\ priceFeeds = [sym \in Symbols |-> ZeroPriceFeed]
    /\ supportedTokens = <<>>
    /\ tokenRegistry = registry
    /\ BackendStarted

----------------------------------------------------------------------------
(* History of the latest call: its outcome, and its arguments when it succeeded *)
(* or failed in a token transfer                                               *)
NoCall == [none |-> TRUE]
Called(op, ok, reason, call) == [op |-> op, ok |-> ok, reason |-> reason, call |-> call]

(* the same with the events of the call: a reverted call leaves none *)
Logged(c, events) ==
    [op |-> c.op, ok |-> c.ok, reason |-> c.reason, call |-> c.call,
     events |-> IF c.ok THEN events ELSE <<>>]

TransferFailures ==
    {"ERC20: transfer to payee failed", "ERC20: transfer to fee collector failed",
     "ERC20: pull of total failed"}

NoRace == [calls |-> <<>>, status |-> <<>>]

(* constructor *)
ConstructorOk(_feeCollector, _feePercentage) ==
    /\ _feeCollector # NullAddr
    /\ _feePercentage <= MAX_FEE

Deployed ==
    /\ \E c \in {NullAddr, collector}, f \in FeeInputs :
          /\ ConstructorOk(c, f)
          /\ feeCollector = c
          /\ platformFeePercentage = f
    /\ payments = [id \in PaymentIds |-> ZeroRecord]
    /\ processedPayments = {}
    /\ balanceOf = [a \in Holders |-> IF a \in Payers THEN InitialBalance ELSE 0]
    /\ now = 1
    /\ txCount = 0
    /\ last = Called("constructor", TRUE, "", NoCall)

(* constructors of RecurringPayment and DocumentRegistry *)
SchedulerDeployed ==
    /\ schedulerRoles = [r \in RoleNames |-> {admin}]
    /\ recurringPayments = [id \in SubscriptionIds |-> ZeroSubscription]
    /\ userRecurringPayments = [a \in Holders |-> <<>>]
    /\ userReceivedPayments = [a \in Holders |-> <<>>]
    /\ cancelled = {}

RegistryDeployed ==
    /\ documentRoles = [r \in DocumentRoleNames |-> {admin}]
    /\ documents = [h \in DocHashes |-> ZeroDocument]
    /\ userDocuments = [a \in Holders |-> <<>>]

Init ==
    /\ Deployed
    /\ SchedulerDeployed
    /\ RegistryDeployed
    /\ TokenRegistryDeployed
    /\ roles = [r \in RoleNames |-> {admin}]
    /\ allowance = [a \in Holders |-> 0]
    /\ race = NoRace

(* Every call is one mined transaction *)
Mined ==
    /\ txCount < MaxTx
    /\ txCount' = txCount + 1
    /\ race' = race
    /\ UNCHANGED <<schedulerVars, documentVars, tokenRegistryVars, tokenRegistry, backendVars>>

(* A call commits what it staged unless it reverted *)
Commit(r) ==
    /\ payments' = IF r.ok THEN r.payments ELSE payments
    /\ processedPayments' = IF r.ok THEN r.processedPayments ELSE processedPayments
    /\ balanceOf' = IF r.ok THEN r.balanceOf ELSE balanceOf
    /\ allowance' = IF r.ok THEN r.allowance ELSE allowance

ProcessPayment_NoRollback(sender, id, to, token, amount, ref, sig) ==
    LET r == processPayment(sender, id, to, token, amount, ref, sig)
    IN  /\ Mined
        /\ Commit([r EXCEPT !.ok = TRUE])
        /\ last' = Logged(Called("processPayment", r.ok, r.reason,
                      IF r.ok \/ r.reason \in TransferFailures
                      THEN [sender |-> sender, paymentId |-> id, payee |-> to,
                            tokenAddress |-> token, amount |-> amount,
                            referenceHash |-> ref, signature |-> sig]
                      ELSE NoCall),
                      processPaymentEvents(sender, id, to, token, amount, ref))
        /\ UNCHANGED <<roles, feeCollector, platformFeePercentage, now>>

ProcessPayment(sender, id, to, token, amount, ref, sig) ==
    LET r == processPayment(sender, id, to, token, amount, ref, sig)
    IN  /\ Mined
        /\ Commit(r)
        /\ last' = Logged(Called("processPayment", r.ok, r.reason,
                      IF r.ok \/ r.reason \in TransferFailures
                      THEN [sender |-> sender, paymentId |-> id, payee |-> to,
                            tokenAddress |-> token, amount |-> amount,
                            referenceHash |-> ref, signature |-> sig]
                      ELSE NoCall),
                      processPaymentEvents(sender, id, to, token, amount, ref))
        /\ UNCHANGED <<roles, feeCollector, platformFeePercentage, now>>

ProcessBatchPayment(sender, ids, tos, token, amounts, refs) ==
    LET r == processBatchPayment(sender, ids, tos, token, amounts, refs)
    IN  /\ Mined
        /\ Commit(r)
        /\ last' = Logged(Called("processBatchPayment", r.ok, r.reason,
                      IF r.ok
                      THEN [sender |-> sender, paymentIds |-> ids, payees |-> tos,
                            tokenAddress |-> token, amounts |-> amounts,
                            referenceHashes |-> refs]
                      ELSE NoCall),
                      processBatchPaymentEvents(sender, ids, tos, token, amounts, refs))
        /\ UNCHANGED <<roles, feeCollector, platformFeePercentage, now>>

UpdatePlatformFee_NoCap(sender, _newFeePercentage) ==
    LET ok == OnlyRole(ADMIN_ROLE, sender)
    IN  /\ Mined
        /\ platformFeePercentage' = IF ok THEN _newFeePercentage ELSE platformFeePercentage
        /\ last' = Called("updatePlatformFee", ok,
                      IF ok THEN ""
                      ELSE IF ~OnlyRole(ADMIN_ROLE, sender) THEN "AccessControlUnauthorizedAccount"
                      ELSE "Fee too high",
                      IF ok THEN [sender |-> sender, fee |-> _newFeePercentage] ELSE NoCall)
        /\ UNCHANGED <<roles, feeCollector, payments, processedPayments, tokenVars, now>>

UpdatePlatformFee(sender, _newFeePercentage) ==
    LET ok == OnlyRole(ADMIN_ROLE, sender) /\ _newFeePercentage <= MAX_FEE
    IN  /\ Mined
        /\ platformFeePercentage' = IF ok THEN _newFeePercentage ELSE platformFeePercentage
        /\ last' = Called("updatePlatformFee", ok,
                      IF ok THEN ""
                      ELSE IF ~OnlyRole(ADMIN_ROLE, sender) THEN "AccessControlUnauthorizedAccount"
                      ELSE "Fee too high",
                      IF ok THEN [sender |-> sender, fee |-> _newFeePercentage] ELSE NoCall)
        /\ UNCHANGED <<roles, feeCollector, payments, processedPayments, tokenVars, now>>

UpdateFeeCollector(sender, _newFeeCollector) ==
    LET ok == OnlyRole(ADMIN_ROLE, sender) /\ _newFeeCollector # NullAddr
    IN  /\ Mined
        /\ feeCollector' = IF ok THEN _newFeeCollector ELSE feeCollector
        /\ last' = Called("updateFeeCollector", ok,
                      IF ok THEN ""
                      ELSE IF ~OnlyRole(ADMIN_ROLE, sender) THEN "AccessControlUnauthorizedAccount"
                      ELSE "Invalid fee collector",
                      IF ok THEN [sender |-> sender, collector |-> _newFeeCollector] ELSE NoCall)
        /\ UNCHANGED <<roles, platformFeePercentage, payments, processedPayments, tokenVars, now>>

(* AccessControl.grantRole / revokeRole: the admin role of every role is DEFAULT_ADMIN_ROLE *)
GrantRole(sender, role, account) ==
    LET ok == HasRole(DEFAULT_ADMIN_ROLE, sender)
    IN  /\ Mined
        /\ roles' = IF ok THEN [roles EXCEPT ![role] = @ \cup {account}] ELSE roles
        /\ last' = Called("grantRole", ok, IF ok THEN "" ELSE "AccessControlUnauthorizedAccount", NoCall)
        /\ UNCHANGED <<feeCollector, platformFeePercentage, payments, processedPayments, tokenVars, now>>

RevokeRole(sender, role, account) ==
    LET ok == HasRole(DEFAULT_ADMIN_ROLE, sender)
    IN  /\ Mined
        /\ roles' = IF ok THEN [roles EXCEPT ![role] = @ \ {account}] ELSE roles
        /\ last' = Called("revokeRole", ok, IF ok THEN "" ELSE "AccessControlUnauthorizedAccount", NoCall)
        /\ UNCHANGED <<feeCollector, platformFeePercentage, payments, processedPayments, tokenVars, now>>

(* ERC20.approve(processor, amount) *)
Approve(owner, amount) ==
    /\ Mined
    /\ allowance' = [allowance EXCEPT ![owner] = amount]
    /\ last' = Called("approve", TRUE, "", NoCall)
    /\ UNCHANGED <<ppVars, balanceOf, now>>

(* a later block *)
Tick ==
    /\ Mined
    /\ now < MaxTime
    /\ now' = now + 1
    /\ last' = Called("tick", TRUE, "", NoCall)
    /\ UNCHANGED <<ppVars, tokenVars>>

----------------------------------------------------------------------------
(* Inputs of the calls *)
Request(id, to, token, amount, ref) ==
    [paymentId |-> id, payee |-> to, tokenAddress |-> token, amount |-> amount,
     referenceHash |-> ref]

PaymentRequests ==
    { Request(<<"p1">>, payee, mockToken, 50, <<"h1">>),
      Request(<<"p1">>, payee, mockToken, 100000000, <<"h2">>),
      Request(ZeroId, payee, mockToken, 50, <<"h1">>),
      Request(ZeroId, processor, mockToken, 50, <<"h1">>),
      Request(<<"p2">>, NullAddr, mockToken, 50, <<"h1">>),
      Request(<<"p2">>, payee, NullAddr, 50, <<"h1">>),
      Request(<<"p2">>, payee, mockToken, 0, <<"h1">>) }

SignaturesFor(sender, q) ==
    IF sender = admin THEN {EmptySignature}
    ELSE {EmptySignature} \cup
         { Sign(paymentManager, EthSignedMessageHash(MessageHash(q.paymentId, q.payee,
                                     q.tokenAddress, q.amount, r))) : r \in ReferenceHashes } \cup
         { Sign(payer, EthSignedMessageHash(MessageHash(q.paymentId, q.payee,
                                     q.tokenAddress, q.amount, q.referenceHash))) }

BatchItem(id, to, amount) == [id |-> id, to |-> to, amount |-> amount]
BatchItems ==
    { BatchItem(<<"p1">>, payee, 50), BatchItem(<<"p2">>, payee, 100000000),
      BatchItem(ZeroId, payee, 50), BatchItem(ZeroId, processor, 50),
      BatchItem(<<"p2">>, NullAddr, 50), BatchItem(<<"p2">>, payee, 0) }

RECURSIVE SeqsUpTo(_, _)
SeqsUpTo(S, n) ==
    IF n = 0 THEN {<<>>}
    ELSE LET shorter == SeqsUpTo(S, n - 1)
         IN  shorter \cup { Append(s, x) : s \in {t \in shorter : Len(t) = n - 1}, x \in S }

Field(items, f) == [i \in 1..Len(items) |-> items[i][f]]
DropLast(s) == IF Len(s) = 0 THEN s ELSE SubSeq(s, 1, Len(s) - 1)

Batch(ids, tos, token, amounts, refs) ==
    [paymentIds |-> ids, payees |-> tos, tokenAddress |-> token, amounts |-> amounts,
     referenceHashes |-> refs]

WellFormed(items) ==
    Batch(Field(items, "id"), Field(items, "to"), mockToken, Field(items, "amount"),
          [i \in 1..Len(items) |-> <<"h1">>])

BatchRequests ==
    { WellFormed(items) : items \in SeqsUpTo(BatchItems, MaxBatch) } \cup
    LET b == WellFormed(<<BatchItem(<<"p1">>, payee, 50), BatchItem(<<"p2">>, payee, 50)>>)
    IN  { [b EXCEPT !.paymentIds = DropLast(@)], [b EXCEPT !.payees = DropLast(@)],
          [b EXCEPT !.amounts = DropLast(@)], [b EXCEPT !.referenceHashes = DropLast(@)],
          [b EXCEPT !.tokenAddress = NullAddr] }

DoProcessPayment ==
    \E sender \in Payers, q \in PaymentRequests :
        \E sig \in SignaturesFor(sender, q) :
            ProcessPayment(sender, q.paymentId, q.payee, q.tokenAddress, q.amount,
                           q.referenceHash, sig)

DoProcessBatchPayment ==
    \E sender \in Payers, b \in BatchRequests :
        ProcessBatchPayment(sender, b.paymentIds, b.payees, b.tokenAddress, b.amounts,
                            b.referenceHashes)

DoUpdatePlatformFee == \E sender \in Callers, f \in FeeInputs : UpdatePlatformFee(sender, f)
DoUpdateFeeCollector == \E sender \in Callers, c \in CollectorInputs : UpdateFeeCollector(sender, c)
DoGrantRole == \E sender \in Callers, role \in GrantedRoles, a \in RoleSubjects :
                  GrantRole(sender, role, a)
DoRevokeRole == \E sender \in Callers, role \in GrantedRoles, a \in RoleSubjects :
                  RevokeRole(sender, role, a)
DoApprove == \E owner \in Payers, amount \in ApproveAmounts : Approve(owner, amount)

Next ==
    \/ DoProcessPayment
    \/ DoProcessBatchPayment
    \/ DoUpdatePlatformFee
    \/ DoUpdateFeeCollector
    \/ DoGrantRole
    \/ DoRevokeRole
    \/ DoApprove
    \/ Tick

Spec == Init /\ [][Next]_vars

TypeOK ==
    /\ platformFeePercentage \in 0..MAX_FEE
    /\ feeCollector \in Holders
    /\ now \in 1..MaxTime
    /\ txCount \in 0..MaxTx

----------------------------------------------------------------------------
(* Two calls that use the same payment identifier, submitted together and  *)
(* mined one after the other in either order                               *)
SingleCall(sender, q, sig) == [kind |-> "single", sender |-> sender, q |-> q, sig |-> sig]
BatchCall(sender, b) == [kind |-> "batch", sender |-> sender, b |-> b]

ValidRequests ==
    { q \in PaymentRequests :
        q.payee # NullAddr /\ q.tokenAddress # NullAddr /\ q.amount > 0 }
ValidItems == { it \in BatchItems : it.to # NullAddr /\ it.amount > 0 }

RaceCalls ==
    { SingleCall(admin, q, EmptySignature) : q \in ValidRequests } \cup
    { SingleCall(payer, q,
                 Sign(paymentManager, EthSignedMessageHash(MessageHash(q.paymentId, q.payee,
                          q.tokenAddress, q.amount, q.referenceHash)))) : q \in ValidRequests } \cup
    { BatchCall(admin, WellFormed(<<it>>)) : it \in ValidItems }

IdOf(c) == IF c.kind = "single" THEN c.q.paymentId ELSE c.b.paymentIds[1]

InitRace ==
    /\ Deployed
    /\ SchedulerDeployed
    /\ RegistryDeployed
    /\ TokenRegistryDeployed
    /\ roles = [r \in RoleNames |->
                  IF r = PAYMENT_MANAGER_ROLE THEN {admin, paymentManager} ELSE {admin}]
    /\ allowance = [a \in Holders |-> IF a \in Payers THEN InitialBalance ELSE 0]
    /\ \E c1 \in RaceCalls, c2 \in RaceCalls :
          /\ IdOf(c1) = IdOf(c2)
          /\ race = [calls |-> <<c1, c2>>, status |-> <<"pending", "pending">>]

MineRace(i, r, op) ==
    /\ race.status[i] = "pending"
    /\ Commit(r)
    /\ race' = [race EXCEPT !.status[i] = IF r.ok THEN "ok" ELSE r.reason]
    /\ txCount' = txCount + 1
    /\ last' = Called(op, r.ok, r.reason, NoCall)
    /\ UNCHANGED <<roles, feeCollector, platformFeePercentage, now>>
    /\ UNCHANGED <<schedulerVars, documentVars, tokenRegistryVars, tokenRegistry, backendVars>>

MineSingle(i) ==
    /\ race.calls[i].kind = "single"
    /\ LET c == race.calls[i]
       IN  MineRace(i, processPayment(c.sender, c.q.paymentId, c.q.payee, c.q.tokenAddress,
                                      c.q.amount, c.q.referenceHash, c.sig),
                    "processPayment")

MineBatch(i) ==
    /\ race.calls[i].kind = "batch"
    /\ LET c == race.calls[i]
       IN  MineRace(i, processBatchPayment(c.sender, c.b.paymentIds, c.b.payees,
                                           c.b.tokenAddress, c.b.amounts, c.b.referenceHashes),
                    "processBatchPayment")

NextRace == \E i \in 1..2 : MineSingle(i) \/ MineBatch(i)

SpecRace == InitRace /\ [][NextRace]_vars

----------------------------------------------------------------------------
(* The scheduler in front of the processor, as Deploy.s.sol sets them up:   *)
(* fee 250 bps, and the scheduler granted PAYMENT_MANAGER_ROLE on the      *)
(* processor (or not yet granted, as between the two deployment steps)     *)
MaxSchedulerTx   == 5
MaxSchedulerTime == 3

Subscribers == {payer}
SubscriptionPayees == {payee, scheduler}
SubscriptionAmount == 40
UpdatedAmount == 80
Frequencies == {1, 2}
Managers == {payer, payee, admin}
Triggers == {payee}

(* the identifiers executeRecurringPayment can derive within the bounds *)
RecurringPaymentIds ==
    { <<id, p, q, d, t>> : id \in SubscriptionIds, p \in Subscribers,
                           q \in SubscriptionPayees,
                           d \in 1..MaxSchedulerTime, t \in 1..MaxSchedulerTime }

InitScheduler ==
    /\ \E c \in {collector, scheduler} :
          /\ ConstructorOk(c, FEE_PERCENTAGE)
          /\ feeCollector = c
    /\ platformFeePercentage = FEE_PERCENTAGE
    /\ roles \in { [r \in RoleNames |-> {admin}],
                   [r \in RoleNames |->
                       IF r = PAYMENT_MANAGER_ROLE THEN {admin, scheduler} ELSE {admin}] }
    /\ payments = [id \in RecurringPaymentIds |-> ZeroRecord]
    /\ processedPayments = {}
    /\ balanceOf = [a \in Holders |-> IF a \in Subscribers THEN InitialBalance ELSE 0]
    /\ allowance = [a \in Holders |-> 0]
    /\ now = 1
    /\ txCount = 0
    /\ last = Called("constructor", TRUE, "", NoCall)
    /\ race = NoRace
    /\ SchedulerDeployed
    /\ RegistryDeployed
    /\ TokenRegistryDeployed

(* A run is followed up to its first reverted call: a reverted call leaves  *)
(* the state it started from                                               *)
MinedByScheduler ==
    /\ last.ok
    /\ txCount < MaxSchedulerTx
    /\ txCount' = txCount + 1
    /\ race' = race
    /\ UNCHANGED <<documentVars, tokenRegistryVars, tokenRegistry, backendVars>>

CommitScheduler(r) ==
    /\ recurringPayments' = IF r.ok THEN r.recurringPayments ELSE recurringPayments
    /\ userRecurringPayments' = IF r.ok THEN r.userRecurringPayments ELSE userRecurringPayments
    /\ userReceivedPayments' = IF r.ok THEN r.userReceivedPayments ELSE userReceivedPayments

CreateRecurringPayment(sender, _id, _payee, _tokenAddress, _amount, _frequency, _firstPaymentDue, _referenceId) ==
    LET r == createRecurringPayment(sender, _id, _payee, _tokenAddress, _amount,
                                    _frequency, _firstPaymentDue, _referenceId)
    IN  /\ MinedByScheduler
        /\ CommitScheduler(r)
        /\ last' = Called("createRecurringPayment", r.ok, r.reason,
                      IF r.ok
                      THEN [sender |-> sender, id |-> _id, payee |-> _payee,
                            tokenAddress |-> _tokenAddress, amount |-> _amount,
                            frequency |-> _frequency, firstPaymentDue |-> _firstPaymentDue,
                            referenceId |-> _referenceId]
                      ELSE NoCall)
        /\ UNCHANGED <<ppVars, tokenVars, now, schedulerRoles, cancelled>>

ExecuteRecurringPayment_NoRollback(sender, _id) ==
    LET r == executeRecurringPayment(_id)
    IN  /\ MinedByScheduler
        /\ recurringPayments' = IF r.ok \/ ExecuteChecksPass(_id)
                                THEN r.recurringPayments ELSE recurringPayments
        /\ Commit(r.call)
        /\ last' = Called("executeRecurringPayment", r.ok, r.reason,
                      IF r.ok
                      THEN [sender |-> sender, id |-> _id, paymentId |-> r.paymentId,
                            subscription |-> recurringPayments[_id]]
                      ELSE NoCall)
        /\ UNCHANGED <<roles, feeCollector, platformFeePercentage, now, schedulerRoles,
                       userRecurringPayments, userReceivedPayments, cancelled>>

ExecuteRecurringPayment(sender, _id) ==
    LET r == executeRecurringPayment(_id)
    IN  /\ MinedByScheduler
        /\ recurringPayments' = IF r.ok THEN r.recurringPayments ELSE recurringPayments
        /\ Commit(r.call)
        /\ last' = Called("executeRecurringPayment", r.ok, r.reason,
                      IF r.ok
                      THEN [sender |-> sender, id |-> _id, paymentId |-> r.paymentId,
                            subscription |-> recurringPayments[_id]]
                      ELSE NoCall)
        /\ UNCHANGED <<roles, feeCollector, platformFeePercentage, now, schedulerRoles,
                       userRecurringPayments, userReceivedPayments, cancelled>>

CancelRecurringPayment(sender, _id) ==
    LET r == cancelRecurringPayment(sender, _id)
    IN  /\ MinedByScheduler
        /\ CommitScheduler(r)
        /\ cancelled' = IF r.ok THEN cancelled \cup {_id} ELSE cancelled
        /\ last' = Called("cancelRecurringPayment", r.ok, r.reason,
                      IF r.ok THEN [sender |-> sender, id |-> _id, events |-> r.events,
                                    subscription |-> recurringPayments[_id]]
                      ELSE NoCall)
        /\ UNCHANGED <<ppVars, tokenVars, now, schedulerRoles>>

UpdateRecurringPayment(sender, _id, _amount, _frequency) ==
    LET r == updateRecurringPayment(sender, _id, _amount, _frequency)
    IN  /\ MinedByScheduler
        /\ CommitScheduler(r)
        /\ last' = Called("updateRecurringPayment", r.ok, r.reason,
                      IF r.ok THEN [sender |-> sender, id |-> _id, amount |-> _amount,
                                    frequency |-> _frequency,
                                    subscription |-> recurringPayments[_id]]
                      ELSE NoCall)
        /\ UNCHANGED <<ppVars, tokenVars, now, schedulerRoles, cancelled>>

(* ERC20.transfer(to, amount) *)
Transfer(from, to, amount) ==
    LET t == SafeTransfer(balanceOf, from, to, amount)
    IN  /\ MinedByScheduler
        /\ balanceOf' = IF t.ok THEN t.bal ELSE balanceOf
        /\ last' = Called("transfer", t.ok, IF t.ok THEN "" ELSE "ERC20InsufficientBalance",
                          NoCall)
        /\ UNCHANGED <<ppVars, allowance, now, schedulerVars>>

(* a later block *)
Warp ==
    /\ MinedByScheduler
    /\ now < MaxSchedulerTime
    /\ now' = now + 1
    /\ last' = Called("warp", TRUE, "", NoCall)
    /\ UNCHANGED <<ppVars, tokenVars, schedulerVars>>

Subscription(id, to, token, amount, frequency, offset) ==
    [id |-> id, payee |-> to, tokenAddress |-> token, amount |-> amount,
     frequency |-> frequency, offset |-> offset]

SubscriptionRequests ==
    { Subscription(<<"s1">>, payee, mockToken, SubscriptionAmount, f, 1) : f \in Frequencies } \cup
    { Subscription(id, to, mockToken, SubscriptionAmount, 1, 1) :
         id \in SubscriptionIds, to \in SubscriptionPayees } \cup
    { Subscription(<<"s1">>, NullAddr, mockToken, SubscriptionAmount, 1, 1),
      Subscription(<<"s1">>, payee, NullAddr, SubscriptionAmount, 1, 1),
      Subscription(<<"s1">>, payee, mockToken, 0, 1, 1),
      Subscription(<<"s1">>, payee, mockToken, SubscriptionAmount, 0, 1),
      Subscription(<<"s1">>, payee, mockToken, SubscriptionAmount, 1, 0) }

UpdateRequests == { <<UpdatedAmount, 1>>, <<SubscriptionAmount, 2>>, <<0, 1>>, <<UpdatedAmount, 0>> }

DoCreateRecurringPayment ==
    \E sender \in Subscribers, q \in SubscriptionRequests :
        CreateRecurringPayment(sender, q.id, q.payee, q.tokenAddress, q.amount, q.frequency,
                               now + q.offset, <<"ref">>)
DoExecuteRecurringPayment ==
    \E sender \in Triggers, id \in SubscriptionIds : ExecuteRecurringPayment(sender, id)
DoCancelRecurringPayment ==
    \E sender \in Managers, id \in SubscriptionIds : CancelRecurringPayment(sender, id)
DoUpdateRecurringPayment ==
    \E sender \in Managers, id \in SubscriptionIds, u \in UpdateRequests :
        UpdateRecurringPayment(sender, id, u[1], u[2])
DoFundScheduler == \E from \in Subscribers : Transfer(from, scheduler, SubscriptionAmount)

NextScheduler ==
    \/ DoCreateRecurringPayment
    \/ DoExecuteRecurringPayment
    \/ DoCancelRecurringPayment
    \/ DoUpdateRecurringPayment
    \/ DoFundScheduler
    \/ Warp

SpecScheduler == InitScheduler /\ [][NextScheduler]_vars

----------------------------------------------------------------------------
(* The scheduler holding tokens for several executions when the first      *)
(* subscription is created: executions of an overdue subscription          *)
FundedExecutions == 3

InitCatchUp ==
    /\ \E c \in {collector, scheduler} :
          /\ ConstructorOk(c, FEE_PERCENTAGE)
          /\ feeCollector = c
    /\ platformFeePercentage = FEE_PERCENTAGE
    /\ roles = [r \in RoleNames |->
                   IF r = PAYMENT_MANAGER_ROLE THEN {admin, scheduler} ELSE {admin}]
    /\ payments = [id \in RecurringPaymentIds |-> ZeroRecord]
    /\ processedPayments = {}
    /\ balanceOf = [a \in Holders |->
                       IF a \in Subscribers THEN InitialBalance
                       ELSE IF a = scheduler THEN FundedExecutions * SubscriptionAmount
                       ELSE 0]
    /\ allowance = [a \in Holders |-> 0]
    /\ now = 1
    /\ txCount = 0
    /\ last = Called("constructor", TRUE, "", NoCall)
    /\ race = NoRace
    /\ SchedulerDeployed
    /\ RegistryDeployed
    /\ TokenRegistryDeployed

NextCatchUp ==
    \/ DoCreateRecurringPayment
    \/ DoExecuteRecurringPayment
    \/ DoUpdateRecurringPayment
    \/ Warp

SpecCatchUp == InitCatchUp /\ [][NextCatchUp]_vars

----------------------------------------------------------------------------
(* The document registry on its own *)
MaxRegistryTx == 4

Registrars == {admin, payer}
DocumentInputs == {Invoice, "Other"}
DocReferences == {"INV-001"}

MinedByRegistry ==
    /\ txCount < MaxRegistryTx
    /\ txCount' = txCount + 1
    /\ UNCHANGED <<ppVars, tokenVars, now, race, schedulerVars, tokenRegistryVars, tokenRegistry, backendVars>>

CommitRegistry(r) ==
    /\ documents' = IF r.ok THEN r.documents ELSE documents
    /\ userDocuments' = IF r.ok THEN r.userDocuments ELSE userDocuments
    /\ UNCHANGED documentRoles

RegisterDocument(sender, _docHash, _docType, _docReference) ==
    LET r == registerDocument(sender, _docHash, _docType, _docReference)
    IN  /\ MinedByRegistry
        /\ CommitRegistry(r)
        /\ last' = Called("registerDocument", r.ok, r.reason,
                      IF r.ok THEN [sender |-> sender, docHash |-> _docHash,
                                    docType |-> _docType, docReference |-> _docReference,
                                    events |-> r.events]
                      ELSE NoCall)

BatchRegisterDocuments_KeepsPrefix(sender, _docHashes, _docTypes, _docReferences) ==
    LET r == batchRegisterDocuments(sender, _docHashes, _docTypes, _docReferences)
    IN  /\ MinedByRegistry
        /\ CommitRegistry([r EXCEPT !.ok = TRUE])
        /\ last' = Called("batchRegisterDocuments", r.ok, r.reason,
                      IF r.ok THEN [sender |-> sender, docHashes |-> _docHashes,
                                    docTypes |-> _docTypes, docReferences |-> _docReferences,
                                    events |-> r.events]
                      ELSE NoCall)

BatchRegisterDocuments(sender, _docHashes, _docTypes, _docReferences) ==
    LET r == batchRegisterDocuments(sender, _docHashes, _docTypes, _docReferences)
    IN  /\ MinedByRegistry
        /\ CommitRegistry(r)
        /\ last' = Called("batchRegisterDocuments", r.ok, r.reason,
                      IF r.ok THEN [sender |-> sender, docHashes |-> _docHashes,
                                    docTypes |-> _docTypes, docReferences |-> _docReferences,
                                    events |-> r.events]
                      ELSE NoCall)

RevokeDocument(sender, _docHash, _reason) ==
    LET r == revokeDocument(sender, _docHash, _reason)
    IN  /\ MinedByRegistry
        /\ CommitRegistry(r)
        /\ last' = Called("revokeDocument", r.ok, r.reason,
                      IF r.ok THEN [sender |-> sender, docHash |-> _docHash,
                                    events |-> r.events]
                      ELSE NoCall)

(* grantDocumentManagerRole / revokeDocumentManagerRole: onlyRole(ADMIN_ROLE), *)
(* then AccessControl's own check of DEFAULT_ADMIN_ROLE                        *)
GrantDocumentManagerRole(sender, _account) ==
    LET ok == HasDocumentRole(ADMIN_ROLE, sender) /\ HasDocumentRole(DEFAULT_ADMIN_ROLE, sender)
    IN  /\ MinedByRegistry
        /\ documentRoles' = IF ok THEN [documentRoles EXCEPT ![DOCUMENT_MANAGER_ROLE] = @ \cup {_account}]
                            ELSE documentRoles
        /\ last' = Called("grantDocumentManagerRole", ok,
                          IF ok THEN "" ELSE "AccessControlUnauthorizedAccount", NoCall)
        /\ UNCHANGED <<documents, userDocuments>>

RevokeDocumentManagerRole(sender, _account) ==
    LET ok == HasDocumentRole(ADMIN_ROLE, sender) /\ HasDocumentRole(DEFAULT_ADMIN_ROLE, sender)
    IN  /\ MinedByRegistry
        /\ documentRoles' = IF ok THEN [documentRoles EXCEPT ![DOCUMENT_MANAGER_ROLE] = @ \ {_account}]
                            ELSE documentRoles
        /\ last' = Called("revokeDocumentManagerRole", ok,
                          IF ok THEN "" ELSE "AccessControlUnauthorizedAccount", NoCall)
        /\ UNCHANGED <<documents, userDocuments>>

DocItem(h, t) == [docHash |-> h, docType |-> t, docReference |-> "INV-001"]
DocItems == { DocItem(<<"d1">>, Invoice), DocItem(<<"d2">>, "Other"), DocItem(ZeroId, Invoice) }

DocBatch(hashes, types, refs) == [docHashes |-> hashes, docTypes |-> types, docReferences |-> refs]
WellFormedDocs(items) ==
    DocBatch(Field(items, "docHash"), Field(items, "docType"), Field(items, "docReference"))

DocBatches ==
    { WellFormedDocs(items) : items \in SeqsUpTo(DocItems, MaxBatch) } \cup
    LET b == WellFormedDocs(<<DocItem(<<"d1">>, Invoice), DocItem(<<"d2">>, "Other")>>)
    IN  { [b EXCEPT !.docHashes = DropLast(@)], [b EXCEPT !.docTypes = DropLast(@)],
          [b EXCEPT !.docReferences = DropLast(@)] }

DoRegisterDocument ==
    \E sender \in Registrars, h \in DocHashes, t \in DocumentInputs, ref \in DocReferences :
        RegisterDocument(sender, h, t, ref)
DoBatchRegisterDocuments ==
    \E sender \in Registrars, b \in DocBatches :
        BatchRegisterDocuments(sender, b.docHashes, b.docTypes, b.docReferences)
DoRevokeDocument ==
    \E sender \in Registrars, h \in DocHashes : RevokeDocument(sender, h, "superseded")
DoGrantDocumentManagerRole ==
    \E sender \in Registrars : GrantDocumentManagerRole(sender, payer)
DoRevokeDocumentManagerRole ==
    \E sender \in Registrars : RevokeDocumentManagerRole(sender, payer)

NextRegistry ==
    \/ DoRegisterDocument
    \/ DoBatchRegisterDocuments
    \/ DoRevokeDocument
    \/ DoGrantDocumentManagerRole
    \/ DoRevokeDocumentManagerRole
    \/ Tick

SpecRegistry == Init /\ [][NextRegistry]_vars

----------------------------------------------------------------------------
(* The token registry on its own, and the processor's pointer to it *)
MaxTokenTx == 4

TokenCallers == {admin, admin2, feeder}

Listing(symbol, tokenAddress, decimals, minimumTransferAmount) ==
    [symbol |-> symbol, tokenAddress |-> tokenAddress, decimals |-> decimals,
     minimumTransferAmount |-> minimumTransferAmount]

Listings ==
    { Listing("USDC", "usdc", 6, 1), Listing("ETH", "weth", 18, 0),
      Listing("WIDE", "wide", 78, 0),
      Listing("", "usdc", 6, 1), Listing("USDC", NullAddr, 6, 1) }

UsdPrice == BigPow10(8)
EthPrice == BigMul(Big(3000), BigPow10(8))
Prices   == {<<>>, UsdPrice, EthPrice}

ListedSymbols == {"USDC", "ETH", "WIDE"}
Thresholds    == {5}
FeedInputs    == {NullAddr, "feed"}

(* A run is followed up to its first reverted call *)
MinedByTokenRegistry ==
    /\ last.ok
    /\ txCount < MaxTokenTx
    /\ txCount' = txCount + 1
    /\ UNCHANGED <<ppVars, tokenVars, now, race, schedulerVars, documentVars>>

CommitTokens(r) ==
    /\ tokenInfos' = IF r.ok THEN r.tokenInfos ELSE tokenInfos
    /\ priceFeeds' = IF r.ok THEN r.priceFeeds ELSE priceFeeds
    /\ supportedTokens' = IF r.ok THEN r.supportedTokens ELSE supportedTokens
    /\ UNCHANGED <<tokenRegistryRoles, tokenRegistry, backendVars>>

AddToken(sender, _symbol, _tokenAddress, _decimals, _minimumTransferAmount) ==
    LET r == addToken(sender, _symbol, _tokenAddress, _decimals, _minimumTransferAmount)
    IN  /\ MinedByTokenRegistry
        /\ CommitTokens(r)
        /\ last' = Called("addToken", r.ok, r.reason,
                      IF r.ok
                      THEN [sender |-> sender, symbol |-> _symbol, events |-> r.events]
                      ELSE [sender |-> sender])

UpdateToken(sender, _symbol, _isEnabled, _minimumTransferAmount) ==
    LET r == updateToken(sender, _symbol, _isEnabled, _minimumTransferAmount)
    IN  /\ MinedByTokenRegistry
        /\ CommitTokens(r)
        /\ last' = Called("updateToken", r.ok, r.reason,
                      IF r.ok
                      THEN [sender |-> sender, symbol |-> _symbol, events |-> r.events]
                      ELSE [sender |-> sender])

SetPriceFeed(sender, _symbol, _feedAddress) ==
    LET r == setPriceFeed(sender, _symbol, _feedAddress)
    IN  /\ MinedByTokenRegistry
        /\ CommitTokens(r)
        /\ last' = Called("setPriceFeed", r.ok, r.reason,
                      IF r.ok
                      THEN [sender |-> sender, symbol |-> _symbol, events |-> r.events]
                      ELSE [sender |-> sender])

UpdatePrice(sender, _symbol, _price) ==
    LET r == updatePrice(sender, _symbol, _price)
    IN  /\ MinedByTokenRegistry
        /\ CommitTokens(r)
        /\ last' = Called("updatePrice", r.ok, r.reason,
                      IF r.ok
                      THEN [sender |-> sender, symbol |-> _symbol, events |-> r.events]
                      ELSE [sender |-> sender])

GrantPriceFeederRole(sender, _account) ==
    LET ok == MayChangeFeeders(sender)
    IN  /\ MinedByTokenRegistry
        /\ tokenRegistryRoles' =
              IF ok THEN [tokenRegistryRoles EXCEPT ![PRICE_FEEDER_ROLE] = @ \cup {_account}]
              ELSE tokenRegistryRoles
        /\ last' = Called("grantPriceFeederRole", ok,
                          IF ok THEN "" ELSE "AccessControlUnauthorizedAccount",
                          [sender |-> sender, account |-> _account])
        /\ UNCHANGED <<tokenInfos, priceFeeds, supportedTokens, tokenRegistry, backendVars>>

RevokePriceFeederRole(sender, _account) ==
    LET ok == MayChangeFeeders(sender)
    IN  /\ MinedByTokenRegistry
        /\ tokenRegistryRoles' =
              IF ok THEN [tokenRegistryRoles EXCEPT ![PRICE_FEEDER_ROLE] = @ \ {_account}]
              ELSE tokenRegistryRoles
        /\ last' = Called("revokePriceFeederRole", ok,
                          IF ok THEN "" ELSE "AccessControlUnauthorizedAccount",
                          [sender |-> sender, account |-> _account])
        /\ UNCHANGED <<tokenInfos, priceFeeds, supportedTokens, tokenRegistry, backendVars>>

(* AccessControl.grantRole on the registry *)
GrantTokenRegistryRole(sender, role, account) ==
    LET ok == HasTokenRegistryRole(DEFAULT_ADMIN_ROLE, sender)
    IN  /\ MinedByTokenRegistry
        /\ tokenRegistryRoles' =
              IF ok THEN [tokenRegistryRoles EXCEPT ![role] = @ \cup {account}]
              ELSE tokenRegistryRoles
        /\ last' = Called("grantRole", ok, IF ok THEN "" ELSE "AccessControlUnauthorizedAccount",
                          [sender |-> sender, role |-> role, account |-> account])
        /\ UNCHANGED <<tokenInfos, priceFeeds, supportedTokens, tokenRegistry, backendVars>>

SetTokenRegistry(sender, _tokenRegistry) ==
    LET r == setTokenRegistry(sender, _tokenRegistry)
    IN  /\ MinedByTokenRegistry
        /\ tokenRegistry' = r.tokenRegistry
        /\ UNCHANGED backendVars
        \* the setter has no emit statement
        /\ last' = Called("setTokenRegistry", r.ok, r.reason,
                          [sender |-> sender, tokenRegistry |-> _tokenRegistry,
                           events |-> <<>>])
        /\ UNCHANGED tokenRegistryVars

(* a later block *)
LaterBlock ==
    /\ last.ok
    /\ txCount < MaxTokenTx
    /\ txCount' = txCount + 1
    /\ now < MaxTime
    /\ now' = now + 1
    /\ last' = Called("tick", TRUE, "", NoCall)
    /\ UNCHANGED <<ppVars, tokenVars, race, schedulerVars, documentVars>>
    /\ UNCHANGED <<tokenRegistryVars, tokenRegistry, backendVars>>

DoAddToken ==
    \E sender \in TokenCallers, l \in Listings :
        AddToken(sender, l.symbol, l.tokenAddress, l.decimals, l.minimumTransferAmount)
DoUpdateToken ==
    \E sender \in TokenCallers, sym \in {"USDC", "WIDE"}, e \in BOOLEAN, m \in Thresholds :
        UpdateToken(sender, sym, e, m)
DoSetPriceFeed ==
    \E sender \in TokenCallers, sym \in {"ETH", "WIDE"}, f \in FeedInputs :
        SetPriceFeed(sender, sym, f)
DoUpdatePrice ==
    \E sender \in TokenCallers, sym \in ListedSymbols, p \in Prices :
        UpdatePrice(sender, sym, p)
DoGrantPriceFeederRole ==
    \E sender \in TokenCallers : GrantPriceFeederRole(sender, feeder)
DoRevokePriceFeederRole ==
    \E sender \in TokenCallers, a \in {admin, feeder} : RevokePriceFeederRole(sender, a)
DoGrantTokenRegistryRole ==
    \E sender \in {admin, admin2} : GrantTokenRegistryRole(sender, ADMIN_ROLE, admin2)
DoSetTokenRegistry ==
    \E sender \in {admin, payer}, a \in {NullAddr, registry2} : SetTokenRegistry(sender, a)

NextTokens ==
    \/ DoAddToken
    \/ DoUpdateToken
    \/ DoSetPriceFeed
    \/ DoUpdatePrice
    \/ DoGrantPriceFeederRole
    \/ DoRevokePriceFeederRole
    \/ DoGrantTokenRegistryRole
    \/ DoSetTokenRegistry
    \/ LaterBlock

SpecTokens == Init /\ [][NextTokens]_vars

----------------------------------------------------------------------------
(* processBatchPayment with a token that hands control to another contract *)
(* inside transferFrom and transfer (a transfer hook).  The contract may    *)
(* call back into the processor before the transfer returns; the whole is  *)
(* still one transaction.                                                  *)
MaxHookTx == 3

FeeAt(percentage, amount) == MulDiv(amount, percentage, BPS_DENOMINATOR)

NoHook == [kind |-> "none"]
FailingHook == [kind |-> "revert"]
HookCallers == {payee, mockToken}
HookCalls ==
    { [kind |-> "updatePlatformFee", caller |-> c, fee |-> f] :
          c \in HookCallers, f \in {0, MAX_FEE, MAX_FEE + 1} } \cup
    { [kind |-> "updateFeeCollector", caller |-> c, collector |-> a] :
          c \in HookCallers, a \in {NullAddr, payee} } \cup
    { [kind |-> k, caller |-> payee] : k \in {"processPayment", "processBatchPayment"} }
Hooks == {NoHook, FailingHook} \cup HookCalls

(* the call a hook makes while the batch is running: nonReentrant rejects  *)
(* the two payment functions, the two setters have only onlyRole           *)
Reenter(h, t) ==
    IF h.kind \in {"processPayment", "processBatchPayment"}
    THEN [t EXCEPT !.entered = Append(@, "ReentrancyGuardReentrantCall")]
    ELSE IF h.kind = "updatePlatformFee"
    THEN IF ~OnlyRole(ADMIN_ROLE, h.caller)
         THEN [t EXCEPT !.entered = Append(@, "AccessControlUnauthorizedAccount")]
         ELSE IF ~(h.fee <= MAX_FEE) THEN [t EXCEPT !.entered = Append(@, "Fee too high")]
         ELSE [t EXCEPT !.fee = h.fee, !.entered = Append(@, "")]
    ELSE IF h.kind = "updateFeeCollector"
    THEN IF ~OnlyRole(ADMIN_ROLE, h.caller)
         THEN [t EXCEPT !.entered = Append(@, "AccessControlUnauthorizedAccount")]
         ELSE IF h.collector = NullAddr
              THEN [t EXCEPT !.entered = Append(@, "Invalid fee collector")]
         ELSE [t EXCEPT !.collector = h.collector, !.entered = Append(@, "")]
    ELSE IF h.kind = "revert" THEN [t EXCEPT !.ok = FALSE]
    ELSE t

RECURSIVE HookedDistribute(_, _, _, _, _)
HookedDistribute(i, tos, amounts, hooks, t) ==
    \* second loop: the fee is computed again from platformFeePercentage
    IF ~t.ok \/ i > Len(tos) THEN t
    ELSE LET feeAmount   == FeeAt(t.fee, amounts[i])
             payeeAmount == amounts[i] - feeAmount
             sent == SafeTransfer(t.bal, processor, tos[i], payeeAmount)
             paid == [t EXCEPT !.ok = sent.ok, !.bal = sent.bal,
                               !.paid = Append(@, payeeAmount),
                               !.fees = Append(@, feeAmount)]
         IN  HookedDistribute(i + 1, tos, amounts, hooks,
                              IF sent.ok THEN Reenter(hooks[i + 1], paid) ELSE paid)

processBatchPaymentHooked(sender, ids, tos, token, amounts, refs, hooks) ==
    LET staged == BatchStage(1, sender, ids, tos, token, amounts,
                     [ok |-> TRUE, reason |-> "", payments |-> payments,
                      processedPayments |-> processedPayments,
                      totalAmount |-> 0, totalFees |-> 0, refs |-> refs])
        pull == SafeTransferFrom(balanceOf, allowance, sender, processor, staged.totalAmount)
        pulled == [ok |-> pull.ok, bal |-> pull.bal, fee |-> platformFeePercentage,
                   collector |-> feeCollector, paid |-> <<>>, fees |-> <<>>,
                   entered |-> <<>>]
        dist == HookedDistribute(1, tos, amounts, hooks,
                                 IF pull.ok THEN Reenter(hooks[1], pulled) ELSE pulled)
        fees == IF staged.totalFees > 0
                THEN SafeTransfer(dist.bal, processor, dist.collector, staged.totalFees)
                ELSE [ok |-> TRUE, bal |-> dist.bal]
        out(ok, reason) ==
            [ok |-> ok, reason |-> reason, payments |-> staged.payments,
             processedPayments |-> staged.processedPayments, balanceOf |-> fees.bal,
             allowance |-> pull.allow, platformFeePercentage |-> dist.fee,
             feeCollector |-> dist.collector, totalAmount |-> staged.totalAmount,
             totalFees |-> staged.totalFees, paid |-> dist.paid, fees |-> dist.fees,
             entered |-> dist.entered]
    IN  IF ~OnlyRole(PAYMENT_MANAGER_ROLE, sender) THEN out(FALSE, "AccessControlUnauthorizedAccount")
        ELSE IF Len(ids) # Len(tos) \/ Len(tos) # Len(amounts) \/ Len(amounts) # Len(refs)
             THEN out(FALSE, "Array length mismatch")
        ELSE IF token = NullAddr THEN out(FALSE, "Invalid token")
        ELSE IF ~staged.ok THEN out(FALSE, staged.reason)
        ELSE IF ~pull.ok THEN out(FALSE, "ERC20: pull of total failed")
        ELSE IF ~dist.ok THEN out(FALSE, "ERC20: transfer to payee failed")
        ELSE IF ~fees.ok THEN out(FALSE, "ERC20: transfer to fee collector failed")
        ELSE out(TRUE, "")

MinedWithHooks ==
    /\ txCount < MaxHookTx
    /\ txCount' = txCount + 1
    /\ UNCHANGED <<now, race, schedulerVars, documentVars, tokenRegistryVars, tokenRegistry, backendVars>>

(* the transaction commits what the batch and the calls made from its      *)
(* transfers have written, or nothing                                      *)
ProcessBatchPaymentHooked(sender, ids, tos, token, amounts, refs, hooks) ==
    LET r == processBatchPaymentHooked(sender, ids, tos, token, amounts, refs, hooks)
    IN  /\ MinedWithHooks
        /\ Commit(r)
        /\ platformFeePercentage' = IF r.ok THEN r.platformFeePercentage ELSE platformFeePercentage
        /\ feeCollector' = IF r.ok THEN r.feeCollector ELSE feeCollector
        /\ last' = Called("processBatchPayment", r.ok, r.reason,
                      IF r.ok
                      THEN [sender |-> sender, paymentIds |-> ids, payees |-> tos,
                            amounts |-> amounts, hooks |-> hooks,
                            totalAmount |-> r.totalAmount, totalFees |-> r.totalFees,
                            paid |-> r.paid, fees |-> r.fees, entered |-> r.entered,
                            feeBefore |-> platformFeePercentage,
                            collectorBefore |-> feeCollector]
                      ELSE NoCall)
        /\ UNCHANGED roles

HookedApprove(owner, amount) ==
    /\ MinedWithHooks
    /\ allowance' = [allowance EXCEPT ![owner] = amount]
    /\ last' = Called("approve", TRUE, "", NoCall)
    /\ UNCHANGED <<ppVars, balanceOf>>

HookedGrantRole(sender, role, account) ==
    LET ok == HasRole(DEFAULT_ADMIN_ROLE, sender)
    IN  /\ MinedWithHooks
        /\ roles' = IF ok THEN [roles EXCEPT ![role] = @ \cup {account}] ELSE roles
        /\ last' = Called("grantRole", ok, IF ok THEN "" ELSE "AccessControlUnauthorizedAccount", NoCall)
        /\ UNCHANGED <<feeCollector, platformFeePercentage, payments, processedPayments, tokenVars>>

(* one hook at most takes control during a batch *)
HookPlans(n) ==
    { [i \in 1..(n + 1) |-> IF i = k THEN h ELSE NoHook] : k \in 1..(n + 1), h \in Hooks }

HookedBatches ==
    { WellFormed(<<BatchItem(<<"p1">>, payee, 100000000)>>),
      WellFormed(<<BatchItem(<<"p1">>, payee, 50), BatchItem(<<"p2">>, payee, 100000000)>>),
      WellFormed(<<BatchItem(<<"p2">>, collector, 50), BatchItem(<<"p1">>, payee, 50)>>) }

DoProcessBatchPaymentHooked ==
    \E b \in HookedBatches :
        \E hooks \in HookPlans(Len(b.payees)) :
            ProcessBatchPaymentHooked(admin, b.paymentIds, b.payees, b.tokenAddress,
                                      b.amounts, b.referenceHashes, hooks)
DoHookedApprove == \E amount \in {InitialBalance} : HookedApprove(admin, amount)
DoHookedGrantRole ==
    \E sender \in {admin, payee} : HookedGrantRole(sender, ADMIN_ROLE, payee)

NextHooks ==
    \/ DoProcessBatchPaymentHooked
    \/ DoHookedApprove
    \/ DoHookedGrantRole

SpecHooks == Init /\ [][NextHooks]_vars

----------------------------------------------------------------------------
(* The processor next to a registry that lists its token or not: payments  *)
(* under every state of the registry                                       *)
MockListing == "USDC"
HighThreshold == 1000

ListedStates ==
    { [sym \in Symbols |-> ZeroTokenInfo] } \cup
    { [[sym \in Symbols |-> ZeroTokenInfo] EXCEPT
          ![MockListing] = TokenInfo(MockListing, mockToken, 18, e, m)] :
      e \in BOOLEAN, m \in {0, HighThreshold} }

InitListed ==
    /\ Deployed
    /\ SchedulerDeployed
    /\ RegistryDeployed
    /\ roles = [r \in RoleNames |-> {admin}]
    /\ allowance = [a \in Holders |-> 0]
    /\ race = NoRace
    /\ tokenRegistryRoles = [r \in TokenRegistryRoleNames |-> {admin}]
    /\ tokenInfos \in ListedStates
    /\ priceFeeds = [sym \in Symbols |-> ZeroPriceFeed]
    /\ supportedTokens = IF TokenExists(MockListing) THEN <<MockListing>> ELSE <<>>
    /\ tokenRegistry = registry
    /\ BackendStarted

ListedRequests ==
    { Request(<<"p1">>, payee, mockToken, 50, <<"h1">>),
      Request(<<"p2">>, payee, mockToken, 100000000, <<"h2">>) }

DoPayListed ==
    \E q \in ListedRequests :
        ProcessPayment(admin, q.paymentId, q.payee, q.tokenAddress, q.amount,
                       q.referenceHash, EmptySignature)
DoBatchListed ==
    \E b \in HookedBatches :
        ProcessBatchPayment(admin, b.paymentIds, b.payees, b.tokenAddress, b.amounts,
                            b.referenceHashes)
DoApproveListed == Approve(admin, InitialBalance)
DoList == \E m \in {0, HighThreshold} : AddToken(admin, MockListing, mockToken, 18, m)
DoUpdateListing ==
    \E e \in BOOLEAN, m \in {0, HighThreshold} : UpdateToken(admin, MockListing, e, m)

NextListed ==
    \/ DoPayListed
    \/ DoBatchListed
    \/ DoApproveListed
    \/ DoList
    \/ DoUpdateListing
    \/ DoSetTokenRegistry

SpecListed == InitListed /\ [][NextListed]_vars

----------------------------------------------------------------------------
(* InvoiceService.processInvoicePayment, step by step between its awaits *)

chainVars == <<ppVars, tokenVars, now, txCount, last, race, schedulerVars, documentVars,
               tokenRegistryVars, tokenRegistry>>

(* ethers.encodeBytes32String: the text's bytes padded to 32, the last one     *)
(* zero; it throws "bytes32 string must be less than 32 bytes" on a longer text *)
encodeBytes32String_AnyLength(text) == [ok |-> TRUE, value |-> <<text>>]

encodeBytes32String(text) ==
    IF Len(text) > 31 THEN [ok |-> FALSE, value |-> <<>>]
    ELSE [ok |-> TRUE, value |-> <<text>>]

(* BlockchainService.processPayment: the arguments are encoded before the     *)
(* transaction is sent, and every exception becomes { success: false };       *)
(* the processor takes an identifier once                                     *)
blockchainProcessPayment(paymentId, referenceHash, used) ==
    LET id  == encodeBytes32String(paymentId)
        ref == encodeBytes32String(referenceHash)
    IN  IF ~id.ok \/ ~ref.ok
        THEN [success |-> FALSE, error |-> "bytes32 string must be less than 32 bytes",
              paymentId |-> <<>>]
        ELSE IF id.value \in used
        THEN [success |-> FALSE, error |-> "Payment ID already used", paymentId |-> <<>>]
        ELSE [success |-> TRUE, error |-> "", paymentId |-> id.value]

(* InvoiceService.updateInvoiceStatus; saved: whether invoice.save() went through *)
updateInvoiceStatus(invoiceId, status, paymentDetails, saved) ==
    IF invoices[invoiceId] = NoInvoice
    THEN [ok |-> FALSE, error |-> "Invoice not found", invoices |-> invoices]
    ELSE IF ~saved
    THEN [ok |-> FALSE, error |-> "save failed", invoices |-> invoices]
    ELSE [ok |-> TRUE, error |-> "",
          invoices |-> [invoices EXCEPT ![invoiceId] =
                          [status |-> status,
                           payment |-> IF paymentDetails # "" THEN paymentDetails
                                       ELSE @.payment]]]

Thrown(r, message) == [r EXCEPT !.pc = "thrown", !.error = message]

(* await Invoice.findById(invoiceId) *)
FindInvoice(c, invoiceId) ==
    /\ requests[c].pc = "idle"
    /\ requests' = [requests EXCEPT ![c] =
                      [IdleRequest EXCEPT !.pc = "found", !.invoiceId = invoiceId,
                                          !.found = invoices[invoiceId]]]
    /\ UNCHANGED <<invoices, settled, chainVars>>

(* the two checks on the document read, the new identifier and reference     *)
(* hash, and await blockchainService.processPayment(...)                     *)
PayInvoice(c) ==
    /\ requests[c].pc = "found"
    /\ LET r == requests[c]
       IN  IF r.found = NoInvoice
           THEN /\ requests' = [requests EXCEPT ![c] = Thrown(r, "Invoice not found")]
                /\ settled' = settled
           ELSE IF r.found.status = "paid"
           THEN /\ requests' = [requests EXCEPT ![c] = Thrown(r, "Invoice already paid")]
                /\ settled' = settled
           ELSE LET paymentId == randomUUID(c)
                    result == blockchainProcessPayment(paymentId, sha256Hex(c),
                                                       {s.paymentId : s \in settled})
                IN  /\ requests' = [requests EXCEPT ![c] =
                                      [r EXCEPT !.pc = "returned", !.paymentId = paymentId,
                                                !.result = result]]
                    /\ settled' = IF result.success
                                  THEN settled \cup {[invoiceId |-> r.invoiceId,
                                                      paymentId |-> result.paymentId]}
                                  ELSE settled
    /\ UNCHANGED <<invoices, chainVars>>

(* if (!paymentResult.success) throw; await this.updateInvoiceStatus(invoiceId, "paid", ...) *)
RecordInvoicePayment(c) ==
    /\ requests[c].pc = "returned"
    /\ LET r == requests[c]
       IN  IF ~r.result.success
           THEN /\ requests' = [requests EXCEPT ![c] = Thrown(r, "Payment failed")]
                /\ invoices' = invoices
           ELSE \E saved \in BOOLEAN :
                   LET u == updateInvoiceStatus(r.invoiceId, "paid", r.paymentId, saved)
                   IN  /\ invoices' = u.invoices
                       /\ requests' = [requests EXCEPT ![c] =
                                         IF u.ok THEN [r EXCEPT !.pc = "done"]
                                         ELSE Thrown(r, u.error)]
    /\ UNCHANGED <<settled, chainVars>>

(* updateInvoiceStatus called on its own *)
UpdateInvoiceStatus(invoiceId, status, saved) ==
    /\ invoices' = updateInvoiceStatus(invoiceId, status, "", saved).invoices
    /\ UNCHANGED <<requests, settled, chainVars>>

DoFindInvoice == \E c \in Calls, invoiceId \in InvoiceIds : FindInvoice(c, invoiceId)
DoPayInvoice == \E c \in Calls : PayInvoice(c)
DoRecordInvoicePayment == \E c \in Calls : RecordInvoicePayment(c)
DoUpdateInvoiceStatus ==
    \E invoiceId \in InvoiceIds, status \in InvoiceStatuses, saved \in BOOLEAN :
        UpdateInvoiceStatus(invoiceId, status, saved)

NextInvoice ==
    \/ DoFindInvoice
    \/ DoPayInvoice
    \/ DoRecordInvoicePayment
    \/ DoUpdateInvoiceStatus

SpecInvoice == Init /\ [][NextInvoice]_vars

----------------------------------------------------------------------------
(* Vocabulary of the properties *)
Range(s) == { s[i] : i \in DOMAIN s }
Count(x, s) == Cardinality({ i \in DOMAIN s : s[i] = x })

RECURSIVE SumSeq(_)
SumSeq(s) == IF Len(s) = 0 THEN 0 ELSE Head(s) + SumSeq(Tail(s))

(* the identifiers a call has accepted *)
AcceptedIds(l) ==
    IF l.ok /\ l.op = "processPayment" THEN <<l.call.paymentId>>
    ELSE IF l.ok /\ l.op = "processBatchPayment" THEN l.call.paymentIds
    ELSE <<>>

(* a payment has been accepted under this identifier *)
Accepted(id) == payments[id] # ZeroRecord

(* floor(amount * bps / 10000); a multiple of 10000 is divided first *)
SpecFee(amount, bps) ==
    IF amount % 10000 = 0 THEN (amount \div 10000) * bps ELSE (amount * bps) \div 10000

PaidTo(a, c, bps) ==
    SumSeq([i \in 1..Len(c.amounts) |->
               IF c.payees[i] = a THEN c.amounts[i] - SpecFee(c.amounts[i], bps) ELSE 0])
TotalOf(c) == SumSeq(c.amounts)
TotalFeesOf(c, bps) == SumSeq([i \in 1..Len(c.amounts) |-> SpecFee(c.amounts[i], bps)])

BatchBalance(a, c) ==
    balanceOf[a]
      - (IF a = c.sender THEN TotalOf(c) ELSE 0)
      + PaidTo(a, c, platformFeePercentage)
      + (IF a = feeCollector THEN TotalFeesOf(c, platformFeePercentage) ELSE 0)

----------------------------------------------------------------------------
(* C1: once a payment has been accepted under an identifier (the all-zero   *)
(* identifier included), no later processPayment call or batch item with   *)
(* that identifier is accepted, no call accepts one identifier twice, and  *)
(* the stored record never changes.                                        *)
C1_IdentifierAcceptedOnce ==
    [][\A id \in PaymentIds :
          /\ Count(id, AcceptedIds(last')) <= 1
          /\ Accepted(id) =>
                /\ Count(id, AcceptedIds(last')) = 0
                /\ payments'[id] = payments[id]]_vars

(* the same statement for the identifiers other than the all-zero one *)
NonZeroIdentifierAcceptedOnce ==
    [][\A id \in PaymentIds \ {ZeroId} :
          /\ Count(id, AcceptedIds(last')) <= 1
          /\ Accepted(id) =>
                /\ Count(id, AcceptedIds(last')) = 0
                /\ payments'[id] = payments[id]]_vars

(* C2: a successful processPayment of amount A debits A from the caller,   *)
(* credits A - floor(A*feeBps/10000) to the payee and floor(A*feeBps/10000)*)
(* to the fee collector, and stores that fee in the record; 100_000000 at  *)
(* 250 bps gives 97_500000 and 2_500000.                                   *)
C2_SinglePaymentSplit ==
    [][(last'.op = "processPayment" /\ last'.ok) =>
          LET c   == last'.call
              fee == SpecFee(c.amount, platformFeePercentage)
          IN  /\ \A a \in Holders :
                    balanceOf'[a] = balanceOf[a]
                                      - (IF a = c.sender THEN c.amount ELSE 0)
                                      + (IF a = c.payee THEN c.amount - fee ELSE 0)
                                      + (IF a = feeCollector THEN fee ELSE 0)
              /\ payments'[c.paymentId].feeAmount = fee
              /\ payments'[c.paymentId].amount = c.amount
              /\ (c.amount = 100000000 /\ platformFeePercentage = FEE_PERCENTAGE) =>
                    (fee = 2500000 /\ c.amount - fee = 97500000)]_vars

C2_Witness ==
    /\ last.op = "processPayment" /\ last.ok
    /\ last.call.amount = 100000000
    /\ platformFeePercentage = FEE_PERCENTAGE
    /\ balanceOf[payee] = 97500000
    /\ balanceOf[collector] = 2500000

(* C3: a processBatchPayment call that fails, or whose batch has an invalid *)
(* item (zero payee, zero amount, an identifier or fingerprint used before *)
(* the call or earlier in the batch), leaves the records, the consumed     *)
(* fingerprints and every balance as they were.                            *)
ItemInvalid(c, i) ==
    \/ c.payees[i] = NullAddr
    \/ c.amounts[i] = 0
    \/ Accepted(c.paymentIds[i])
    \/ PaymentHash(c.paymentIds[i], c.payees[i], c.tokenAddress, c.amounts[i])
          \in processedPayments
    \/ \E j \in 1..(i - 1) : c.paymentIds[j] = c.paymentIds[i]

C3_BatchAllOrNothing ==
    [][(/\ last'.op = "processBatchPayment"
        /\ \/ ~last'.ok
           \/ \E i \in 1..Len(last'.call.paymentIds) : ItemInvalid(last'.call, i))
       => UNCHANGED <<payments, processedPayments, balanceOf>>]_vars

(* C4 as stated: a successful batch debits the caller by the total, credits *)
(* every payee its net amount and the fee collector the summed fees, and   *)
(* leaves the processor's own balance as it was.                           *)
C4_NothingStaysInCustody ==
    [][(last'.op = "processBatchPayment" /\ last'.ok) =>
          /\ \A a \in Holders : balanceOf'[a] = BatchBalance(a, last'.call)
          /\ balanceOf'[processor] = balanceOf[processor]]_vars

(* C4 as amended: a successful batch changes every balance, the processor's *)
(* included, by exactly: minus the total for the caller, plus the net      *)
(* amounts of the items paid to that account, plus the summed fees for the *)
(* fee collector; the processor's balance is unchanged when it is neither  *)
(* a payee nor the fee collector.                                          *)
C4_BatchDistribution ==
    [][(last'.op = "processBatchPayment" /\ last'.ok) =>
          /\ \A a \in Holders : balanceOf'[a] = BatchBalance(a, last'.call)
          /\ (processor \notin Range(last'.call.payees) /\ feeCollector # processor) =>
                balanceOf'[processor] = balanceOf[processor]]_vars

C4_Witness ==
    /\ last.op = "processBatchPayment" /\ last.ok
    /\ Len(last.call.paymentIds) = 2
    /\ processor \in Range(last.call.payees)
    /\ balanceOf[processor] > 0
    /\ balanceOf[collector] > 0

C6_PayerNeedsNoSignature ==
    \A q \in ValidRequests :
        (/\ ~HasRole(PAYMENT_MANAGER_ROLE, payer)
         /\ ~Accepted(q.paymentId)
         /\ PaymentHash(q.paymentId, q.payee, q.tokenAddress, q.amount) \notin processedPayments
         /\ balanceOf[payer] >= q.amount
         /\ allowance[payer] >= q.amount)
        => LET r == processPayment(payer, q.paymentId, q.payee, q.tokenAddress, q.amount,
                                   q.referenceHash, EmptySignature)
           IN  /\ r.ok
               /\ r.payments[q.paymentId].payer = payer
               /\ r.payments[q.paymentId].payee = q.payee
               /\ r.payments[q.paymentId].amount = q.amount
               /\ r.payments[q.paymentId].referenceHash = q.referenceHash

C8_FailedPaymentChangesNothing ==
    [][(last'.op = "processPayment" /\ ~last'.ok) =>
          /\ UNCHANGED <<payments, processedPayments, balanceOf, allowance>>
          /\ last'.reason \in TransferFailures =>
                LET c == last'.call
                IN  /\ payments'[c.paymentId].paymentId = ZeroId
                    /\ PaymentHash(c.paymentId, c.payee, c.tokenAddress, c.amount)
                          \notin processedPayments']_vars

C8_Witness ==
    /\ last.op = "processPayment" /\ ~last.ok
    /\ last.reason = "ERC20: transfer to fee collector failed"
    /\ payments[last.call.paymentId] = ZeroRecord
    /\ balanceOf[last.call.payee] = 0

(* C9: the fee rate never exceeds MAX_FEE, a rejected updatePlatformFee     *)
(* leaves it unchanged, updatePlatformFee and updateFeeCollector succeed   *)
(* only for a holder of the administrator role, and the fee of every       *)
(* stored record is at most 5% of its amount.                              *)
FeeBounded ==
    /\ platformFeePercentage <= MAX_FEE
    /\ \A id \in PaymentIds : payments[id].feeAmount * 20 <= payments[id].amount
    /\ (last.op \in {"updatePlatformFee", "updateFeeCollector"} /\ last.ok) =>
          HasRole(ADMIN_ROLE, last.call.sender)

RejectedUpdateKeepsFee ==
    (last'.op \in {"updatePlatformFee", "updateFeeCollector"} /\ ~last'.ok) =>
        UNCHANGED <<platformFeePercentage, feeCollector>>

C9_FeeCapped == []FeeBounded /\ [][RejectedUpdateKeepsFee]_vars

C9_Witness ==
    /\ last.op = "updatePlatformFee" /\ ~last.ok
    /\ last.reason = "Fee too high"
    /\ \E id \in PaymentIds : payments[id].feeAmount > 0

(* C10: of two authorized calls submitted together with the same payment   *)
(* identifier, in either order exactly one is accepted and the other is    *)
(* rejected as already used.                                               *)
C10_ExactlyOneOfARace ==
    (race.status[1] # "pending" /\ race.status[2] # "pending") =>
        \E i \in 1..2 :
            /\ race.status[i] = "ok"
            /\ race.status[3 - i] \in {"Payment ID already used", "Payment already processed"}

(* the same statement for the identifiers other than the all-zero one *)
NonZeroRaceHasOneWinner ==
    (IdOf(race.calls[1]) # ZeroId) => C10_ExactlyOneOfARace

----------------------------------------------------------------------------
(* Vocabulary of the scheduler's properties *)

(* a createRecurringPayment has succeeded with this id *)
Subscribed(id) == recurringPayments[id] # ZeroSubscription

Executed == last.op = "executeRecurringPayment" /\ last.ok

(* C11: executeRecurringPayment fails, changing nothing, whenever the       *)
(* subscription is absent, inactive or not yet due; a successful execution *)
(* at any time T >= nextDueAt sets nextDueAt to the previous nextDueAt     *)
(* plus the frequency, whatever T is.                                      *)
ExecutionGuarded ==
    \A id \in SubscriptionIds :
        (\/ ~Subscribed(id)
         \/ ~recurringPayments[id].isActive
         \/ now < recurringPayments[id].nextPaymentDue)
        => ~executeRecurringPayment(id).ok

ExecutionAdvances ==
    Executed =>
        LET before == last.call.subscription
        IN  /\ Subscribed(last.call.id) /\ before.isActive
            /\ now >= before.nextPaymentDue
            /\ recurringPayments[last.call.id].nextPaymentDue =
                  before.nextPaymentDue + before.frequency

FailedExecutionChangesNothing ==
    (last'.op = "executeRecurringPayment" /\ ~last'.ok) =>
        UNCHANGED <<schedulerVars, ppVars, tokenVars>>

C11_DueDateAdvances ==
    [](ExecutionGuarded /\ ExecutionAdvances) /\ [][FailedExecutionChangesNothing]_vars

C11_Witness ==
    /\ Executed
    /\ now > last.call.subscription.nextPaymentDue
    /\ last.call.subscription.frequency = 1
    /\ recurringPayments[last.call.id].nextPaymentDue = now

(* C12: once cancelRecurringPayment has succeeded on a subscription, the    *)
(* subscription is inactive in every later state, every                    *)
(* executeRecurringPayment and updateRecurringPayment on it is rejected,   *)
(* and so is every createRecurringPayment with its id.                     *)
C12_CancellationIsTerminal ==
    \A id \in cancelled :
        /\ ~recurringPayments[id].isActive
        /\ ~executeRecurringPayment(id).ok
        /\ \A sender \in Managers, u \in UpdateRequests :
              ~updateRecurringPayment(sender, id, u[1], u[2]).ok
        /\ \A sender \in Managers, q \in SubscriptionRequests :
              q.id = id =>
                 ~createRecurringPayment(sender, q.id, q.payee, q.tokenAddress, q.amount,
                                         q.frequency, now + q.offset, <<"ref">>).ok

C12_Witness ==
    /\ cancelled # {}
    /\ last.op = "executeRecurringPayment" /\ ~last.ok
    /\ last.reason = "Payment is not active"
    /\ \E id \in cancelled : now >= recurringPayments[id].nextPaymentDue
    /\ balanceOf[scheduler] >= SubscriptionAmount

(* C13: cancelRecurringPayment succeeds, and emits its event, only on a     *)
(* subscription that was active when it was called.                        *)
C13_CancelOnlyFromActive ==
    (last.op = "cancelRecurringPayment" /\ last.ok) =>
        /\ last.call.subscription.isActive
        /\ last.call.events # <<>>

(* C14: cancelRecurringPayment and updateRecurringPayment succeed only for  *)
(* the account that created the subscription or a holder of the            *)
(* scheduler's payment-manager role; a call by any other account, the      *)
(* payee included, is rejected and leaves the scheduler's state unchanged. *)
ManagedByOwner ==
    /\ (last.op \in {"cancelRecurringPayment", "updateRecurringPayment"} /\ last.ok) =>
          \/ last.call.sender = last.call.subscription.payer
          \/ HasSchedulerRole(PAYMENT_MANAGER_ROLE, last.call.sender)
    /\ \A sender \in Holders, id \in SubscriptionIds :
          (/\ sender # recurringPayments[id].payer
           /\ ~HasSchedulerRole(PAYMENT_MANAGER_ROLE, sender))
          => /\ ~cancelRecurringPayment(sender, id).ok
             /\ \A u \in UpdateRequests : ~updateRecurringPayment(sender, id, u[1], u[2]).ok

RejectedManagementChangesNothing ==
    (last'.op \in {"cancelRecurringPayment", "updateRecurringPayment"} /\ ~last'.ok) =>
        UNCHANGED <<schedulerVars, ppVars, tokenVars>>

C14_OnlyOwnerOrManager == []ManagedByOwner /\ [][RejectedManagementChangesNothing]_vars

C14_Witness ==
    /\ last.op = "cancelRecurringPayment" /\ ~last.ok
    /\ last.reason = "Not authorized"
    /\ \E id \in SubscriptionIds : recurringPayments[id].payee = payee

(* C15: updateRecurringPayment succeeds only on an existing, active         *)
(* subscription with amount > 0 and frequency > 0; a successful update     *)
(* changes the amount and the frequency of that subscription and nothing   *)
(* else, and a rejected one changes nothing.                               *)
C15_UpdateFrame ==
    [][(last'.op = "updateRecurringPayment") =>
          IF last'.ok
          THEN LET c == last'.call
               IN  /\ recurringPayments[c.id].id # ZeroId
                   /\ recurringPayments[c.id].isActive
                   /\ c.amount > 0 /\ c.frequency > 0
                   /\ recurringPayments' =
                         [recurringPayments EXCEPT ![c.id].amount = c.amount,
                                                   ![c.id].frequency = c.frequency]
                   /\ UNCHANGED <<schedulerRoles, userRecurringPayments,
                                  userReceivedPayments, cancelled, ppVars, tokenVars>>
          ELSE UNCHANGED <<schedulerVars, ppVars, tokenVars>>]_vars

C15_Witness ==
    /\ last.op = "updateRecurringPayment" /\ last.ok
    /\ last.call.subscription.amount = SubscriptionAmount
    /\ recurringPayments[last.call.id].amount = UpdatedAmount
    /\ recurringPayments[last.call.id].nextPaymentDue <= now

(* C16: for every id, the all-zero id included, createRecurringPayment is   *)
(* rejected once a createRecurringPayment with that id has succeeded, and  *)
(* then leaves the subscription and both listings unchanged; it is         *)
(* rejected for a zero amount or frequency or a first due time not in the  *)
(* future; a successful create yields an active subscription of the caller *)
(* due at the given time.                                                  *)
CreateStep(ids) ==
    (last'.op = "createRecurringPayment") =>
        IF last'.ok
        THEN LET c == last'.call
             IN  (c.id \in ids) =>
                   /\ ~Subscribed(c.id)
                   /\ c.amount > 0 /\ c.frequency > 0 /\ c.firstPaymentDue > now
                   /\ recurringPayments'[c.id].isActive
                   /\ recurringPayments'[c.id].payer = c.sender
                   /\ recurringPayments'[c.id].nextPaymentDue = c.firstPaymentDue
        ELSE UNCHANGED <<recurringPayments, userRecurringPayments, userReceivedPayments>>

C16_SubscriptionCreatedOnce == [][CreateStep(SubscriptionIds)]_vars

(* the same statement for the ids other than the all-zero one *)
NonZeroSubscriptionCreatedOnce == [][CreateStep(SubscriptionIds \ {ZeroId})]_vars

(* C17: for every id, isPaymentDue is false when no subscription was        *)
(* created with the id or the subscription is cancelled, and is            *)
(* now >= nextPaymentDue otherwise; it is true exactly when                *)
(* executeRecurringPayment would pass its three checks.                    *)
C17_DueExactlyWhenExecutable ==
    \A id \in SubscriptionIds :
        /\ isPaymentDue(id) =
              (/\ Subscribed(id)
               /\ id \notin cancelled
               /\ now >= recurringPayments[id].nextPaymentDue)
        /\ isPaymentDue(id) = ExecuteChecksPass(id)

(* the part of C17 that compares isPaymentDue with the checks of           *)
(* executeRecurringPayment                                                 *)
DueAgreesWithExecute ==
    \A id \in SubscriptionIds : isPaymentDue(id) = ExecuteChecksPass(id)

(* C18: a successful executeRecurringPayment creates exactly one payment    *)
(* record in the processor, with the payee, token and amount of the        *)
(* subscription and the scheduler as payer, and only while the scheduler   *)
(* holds the processor's payment-manager role; when the processor call     *)
(* fails the execution fails and nextPaymentDue is not advanced.           *)
C18_ExecutionRecordsOnePayment ==
    [][(last'.op = "executeRecurringPayment") =>
          IF last'.ok
          THEN LET c == last'.call
                   subscription == recurringPayments[c.id]
                   record == payments'[c.paymentId]
               IN  /\ payments[c.paymentId] = ZeroRecord
                   /\ \A id \in DOMAIN payments :
                         id # c.paymentId => payments'[id] = payments[id]
                   /\ record.paymentId = c.paymentId
                   /\ record.payer = scheduler
                   /\ record.payee = subscription.payee
                   /\ record.tokenAddress = subscription.tokenAddress
                   /\ record.amount = subscription.amount
                   /\ HasRole(PAYMENT_MANAGER_ROLE, scheduler)
          ELSE UNCHANGED <<recurringPayments, payments, processedPayments>>]_vars

C18_Witness ==
    /\ Executed
    /\ payments[last.call.paymentId].payer = scheduler
    /\ payments[last.call.paymentId].payee = payee
    /\ payments[last.call.paymentId].amount = SubscriptionAmount
    /\ payments[last.call.paymentId].feeAmount = 1

(* the balance of account a after an execution of subscription b *)
ExecutionBalance(a, b) ==
    LET fee == SpecFee(b.amount, platformFeePercentage)
    IN  balanceOf[a]
          - (IF a = scheduler THEN b.amount ELSE 0)
          + (IF a = b.payee THEN b.amount - fee ELSE 0)
          + (IF a = feeCollector THEN fee ELSE 0)

(* C19 as stated: a successful execution lowers the scheduler's balance by  *)
(* exactly the amount and leaves the payer's balance as it was (the payer  *)
(* being neither payee nor fee collector), and an execution fails whenever *)
(* the scheduler's balance is below the amount.                            *)
C19_PaidFromScheduler ==
    /\ [](\A id \in SubscriptionIds :
             balanceOf[scheduler] < recurringPayments[id].amount
                => ~executeRecurringPayment(id).ok)
    /\ [][(last'.op = "executeRecurringPayment" /\ last'.ok) =>
             LET b == recurringPayments[last'.call.id]
             IN  /\ balanceOf'[scheduler] = balanceOf[scheduler] - b.amount
                 /\ (b.payer \notin {b.payee, feeCollector}) =>
                       balanceOf'[b.payer] = balanceOf[b.payer]]_vars

(* C19 as amended: a successful execution changes every balance by exactly *)
(* minus the amount for the scheduler, plus the net amount for the payee   *)
(* and plus the fee for the fee collector, so the scheduler's balance      *)
(* falls by exactly the amount when it is neither payee nor fee collector  *)
(* and the payer's balance is untouched when it is none of the three; an   *)
(* execution fails whenever the scheduler's balance is below the amount    *)
(* and the scheduler is not itself the payee.                              *)
C19_SchedulerFunds ==
    /\ [](\A id \in SubscriptionIds :
             (/\ balanceOf[scheduler] < recurringPayments[id].amount
              /\ recurringPayments[id].payee # scheduler)
                => ~executeRecurringPayment(id).ok)
    /\ [][(last'.op = "executeRecurringPayment" /\ last'.ok) =>
             LET b == recurringPayments[last'.call.id]
             IN  /\ \A a \in Holders : balanceOf'[a] = ExecutionBalance(a, b)
                 /\ (scheduler \notin {b.payee, feeCollector}) =>
                       balanceOf'[scheduler] = balanceOf[scheduler] - b.amount
                 /\ (b.payer \notin {b.payee, feeCollector, scheduler}) =>
                       balanceOf'[b.payer] = balanceOf[b.payer]]_vars

C19_Witness ==
    /\ Executed
    /\ last.call.subscription.payee = scheduler
    /\ feeCollector = collector
    /\ balanceOf[collector] > 0
    /\ balanceOf[scheduler] = SubscriptionAmount - balanceOf[collector]

----------------------------------------------------------------------------
(* Vocabulary of the registry's properties *)

(* the number of entries of all personal indexes that hold this hash *)
IndexEntries(h) ==
    Cardinality(UNION { { <<a, i>> : i \in { j \in DOMAIN userDocuments[a] :
                                                   userDocuments[a][j] = h } } :
                        a \in Holders })

(* a document with this hash has been registered at some time *)
EverRegistered(h) == \E a \in Holders : h \in Range(userDocuments[a])

(* C20: registerDocument is rejected, changing nothing, for the zero hash   *)
(* and for a hash that has ever been registered, revoked or not; a         *)
(* successful call stores the caller, the current time, the given type and *)
(* reference and revoked = false and appends the hash to the caller's      *)
(* index; every registered hash is in the indexes exactly once.            *)
RegisteredOnce ==
    /\ \A h \in DocHashes :
          IndexEntries(h) = IF documents[h].docHash # ZeroId THEN 1 ELSE 0
    /\ \A sender \in Registrars, h \in DocHashes, t \in DocumentInputs :
          (h = ZeroId \/ EverRegistered(h)) => ~registerDocument(sender, h, t, "INV-001").ok

RegisterStep ==
    (last'.op = "registerDocument") =>
        IF last'.ok
        THEN LET c == last'.call
             IN  /\ c.docHash # ZeroId /\ ~EverRegistered(c.docHash)
                 /\ documents' = [documents EXCEPT ![c.docHash] =
                        Document(c.docHash, c.sender, now, c.docType, c.docReference, FALSE)]
                 /\ userDocuments' = [userDocuments EXCEPT ![c.sender] = Append(@, c.docHash)]
                 /\ UNCHANGED documentRoles
        ELSE UNCHANGED documentVars

C20_RegisterOnce == []RegisteredOnce /\ [][RegisterStep]_vars

C20_Witness ==
    /\ last.op = "registerDocument" /\ ~last.ok
    /\ last.reason = "Document already registered"
    /\ \E h \in DocHashes : documents[h].isRevoked /\ documents[h].registeredBy = payer

(* C21: revokeDocument is rejected for a hash that was never registered and *)
(* for one already revoked; once revoked, a hash verifies as exists = true *)
(* and isValid = false in every later state; verifyDocument always returns *)
(* isValid = (exists and not revoked), with exists = false for a hash that *)
(* was never registered.                                                   *)
VerifyAgrees ==
    \A h \in DocHashes :
        LET v == verifyDocument(h)
        IN  /\ v.exists = EverRegistered(h)
            /\ v.isValid = (v.exists /\ ~v.documentData.isRevoked)
            /\ v.documentData = documents[h]
            /\ \A sender \in Registrars :
                  (~EverRegistered(h) \/ documents[h].isRevoked)
                     => ~revokeDocument(sender, h, "superseded").ok

RevokedStaysRevoked ==
    \A h \in DocHashes :
        (\/ documents[h].isRevoked
         \/ (last'.op = "revokeDocument" /\ last'.ok /\ last'.call.docHash = h))
        => /\ documents'[h].docHash = h
           /\ documents'[h].isRevoked
           /\ EverRegistered(h)

C21_RevokeOnceThenInvalid == []VerifyAgrees /\ [][RevokedStaysRevoked]_vars

C21_Witness ==
    /\ last.op = "revokeDocument" /\ ~last.ok
    /\ last.reason = "Document already revoked"
    /\ \E h \in DocHashes : verifyDocument(h).exists /\ ~verifyDocument(h).isValid

(* C22: once a hash is registered its record is never removed and its       *)
(* registrant, timestamp, type and reference never change; only revoked    *)
(* can change, and only from false to true.                                *)
C22_AppendOnly ==
    [][\A h \in DocHashes :
          EverRegistered(h) =>
             /\ EverRegistered(h)'
             /\ \/ documents'[h] = documents[h]
                \/ /\ ~documents[h].isRevoked
                   /\ documents'[h] = [documents[h] EXCEPT !.isRevoked = TRUE]]_vars

C22_Witness ==
    /\ last.op \in {"registerDocument", "batchRegisterDocuments"} /\ last.ok
    /\ \E h \in DocHashes : documents[h].isRevoked /\ documents[h].timestamp < now
    /\ \E h \in DocHashes : documents[h].docHash # ZeroId /\ documents[h].timestamp = now

(* C23: batchRegisterDocuments by a document manager is rejected, and       *)
(* registers and indexes nothing, when the arrays differ in length or an   *)
(* item has the zero hash or a hash registered before the call or earlier  *)
(* in the batch; otherwise it registers every item.                        *)
DocBatchValid(b) ==
    /\ Len(b.docHashes) = Len(b.docTypes)
    /\ Len(b.docTypes) = Len(b.docReferences)
    /\ \A i \in 1..Len(b.docHashes) :
          /\ b.docHashes[i] # ZeroId
          /\ ~EverRegistered(b.docHashes[i])
          /\ \A j \in 1..(i - 1) : b.docHashes[j] # b.docHashes[i]

BatchDecided ==
    \A sender \in Registrars, b \in DocBatches :
        HasDocumentRole(DOCUMENT_MANAGER_ROLE, sender) =>
           (batchRegisterDocuments(sender, b.docHashes, b.docTypes, b.docReferences).ok
              = DocBatchValid(b))

BatchStep ==
    (last'.op = "batchRegisterDocuments") =>
        IF last'.ok
        THEN LET c == last'.call
             IN  /\ DocBatchValid(c)
                 /\ \A i \in 1..Len(c.docHashes) :
                       documents'[c.docHashes[i]] =
                          Document(c.docHashes[i], c.sender, now, c.docTypes[i],
                                   c.docReferences[i], FALSE)
                 /\ \A h \in DocHashes \ Range(c.docHashes) : documents'[h] = documents[h]
                 /\ userDocuments' =
                       [userDocuments EXCEPT ![c.sender] = @ \o c.docHashes]
        ELSE UNCHANGED documentVars

C23_BatchAllOrNothing == []BatchDecided /\ [][BatchStep]_vars

C23_Witness ==
    /\ last.op = "batchRegisterDocuments" /\ ~last.ok
    /\ last.reason = "Document already registered"
    /\ \E h \in DocHashes : documents[h].docHash = ZeroId
    /\ \E h \in DocHashes : documents[h].docHash # ZeroId

(* Vocabulary of the token registry's properties *)
Registered(sym) == sym \in Range(supportedTokens)

(* 2^255 *)
HalfOfRange ==
    <<9968, 6481, 9565, 2003, 2879, 197, 282, 3282, 9923, 6634,
      5392, 3439, 2504, 8549, 7117, 8097, 1865, 446, 7896, 5>>

ConvertAmounts ==
    { <<>>, Big(1), BigMul(Big(3000), BigPow10(6)),
      BigAdd(BigMul(Big(123456789), BigPow10(10)), Big(123456789)),
      HalfOfRange }

(* q = floor(x / y) *)
IsFloorOf(q, x, y) ==
    /\ BigLeq(BigMul(q, y), x)
    /\ BigLess(x, BigMul(BigAdd(q, <<1>>), y))

UsdValue(f, x) == BigDiv(BigMul(x, priceFeeds[f].lastPrice), BigPow10(tokenInfos[f].decimals))

(* every intermediate value of the conversion fits 256 bits *)
ConversionInRange(f, t, x) ==
    /\ BigLeq(BigPow10(tokenInfos[f].decimals), MaxUint256)
    /\ BigLeq(BigPow10(tokenInfos[t].decimals), MaxUint256)
    /\ BigLeq(BigMul(x, priceFeeds[f].lastPrice), MaxUint256)
    /\ BigLeq(BigMul(UsdValue(f, x), BigPow10(tokenInfos[t].decimals)), MaxUint256)

ConversionFloors(f, t, x) ==
    LET r == convertAmount(f, t, x)
        usd == UsdValue(f, x)
    IN  /\ r.ok
        /\ IsFloorOf(usd, BigMul(x, priceFeeds[f].lastPrice),
                     BigPow10(tokenInfos[f].decimals))
        /\ IsFloorOf(r.value, BigMul(usd, BigPow10(tokenInfos[t].decimals)),
                     priceFeeds[t].lastPrice)

ExampleListed ==
    /\ Registered("USDC") /\ tokenInfos["USDC"].decimals = 6
    /\ priceFeeds["USDC"].lastPrice = BigPow10(8)
    /\ Registered("ETH") /\ tokenInfos["ETH"].decimals = 18
    /\ priceFeeds["ETH"].lastPrice = <<0, 0, 3000>>

ExampleConverts ==
    ExampleListed =>
       convertAmount("USDC", "ETH", <<0, 0, 30>>) = Converted(BigPow10(18))

(* C24: convertAmount(sym, sym, X) returns X for every registered symbol,   *)
(* also with price 0 and whether or not the token is enabled, and fails    *)
(* for an unregistered symbol even when both symbols are equal.            *)
C24_IdentityConversion ==
    \A sym \in Symbols, x \in ConvertAmounts :
        IF Registered(sym)
        THEN convertAmount(sym, sym, x) = Converted(x)
        ELSE ~convertAmount(sym, sym, x).ok

C24_Witness ==
    /\ \E sym \in Symbols :
          /\ Registered(sym)
          /\ ~tokenInfos[sym].isEnabled
          /\ priceFeeds[sym].lastPrice = <<>>
          /\ convertAmount(sym, sym, HalfOfRange).value = HalfOfRange
    /\ \E sym \in ListedSymbols : ~Registered(sym) /\ ~convertAmount(sym, sym, <<1>>).ok

(* C25: between two distinct registered symbols convertAmount fails when    *)
(* either price is zero and otherwise returns                              *)
(* floor(floor(amount * priceFrom / 10^decimalsFrom) * 10^decimalsTo /     *)
(* priceTo); 3000 USDC (6 decimals, price 1.00) convert to 1 ETH           *)
(* (18 decimals, price 3000.00).                                           *)
C25_ConversionFormula ==
    /\ ExampleConverts
    /\ \A f \in Symbols, t \in Symbols, x \in ConvertAmounts :
          (f # t /\ Registered(f) /\ Registered(t)) =>
             IF priceFeeds[f].lastPrice = <<>> \/ priceFeeds[t].lastPrice = <<>>
             THEN ~convertAmount(f, t, x).ok
             ELSE ConversionFloors(f, t, x)

(* C25, amended: the same, whenever every intermediate value fits 256 bits; *)
(* otherwise the call fails with an arithmetic panic.                      *)
C25_ConversionFormulaInRange ==
    /\ ExampleConverts
    /\ \A f \in Symbols, t \in Symbols, x \in ConvertAmounts :
          (f # t /\ Registered(f) /\ Registered(t)) =>
             IF priceFeeds[f].lastPrice = <<>> \/ priceFeeds[t].lastPrice = <<>>
             THEN ~convertAmount(f, t, x).ok
             ELSE IF ConversionInRange(f, t, x)
             THEN ConversionFloors(f, t, x)
             ELSE convertAmount(f, t, x) = NotConverted(Panic)

C25_Witness ==
    /\ ExampleListed
    /\ convertAmount("USDC", "ETH", <<0, 0, 30>>).value = BigPow10(18)
    /\ convertAmount("ETH", "USDC", BigAdd(BigMul(Big(123456789), BigPow10(10)), Big(123456789))).value
          = <<3670, 370, 37>>
    /\ convertAmount("USDC", "ETH", HalfOfRange).reason = Panic

(* C26: addToken, updateToken and setPriceFeed succeed only for a holder of *)
(* ADMIN_ROLE and updatePrice only for a holder of PRICE_FEEDER_ROLE: an    *)
(* administrator without the price-feeder role cannot change a price, and  *)
(* a price-feeder who is not an administrator cannot add, enable, disable  *)
(* or re-threshold a token.                                                *)
AdminOperations == {"addToken", "updateToken", "setPriceFeed"}

TokenGuards ==
    \A sender \in TokenCallers \cup {payer} :
        /\ ~HasTokenRegistryRole(ADMIN_ROLE, sender) =>
              /\ \A l \in Listings :
                    ~addToken(sender, l.symbol, l.tokenAddress, l.decimals,
                              l.minimumTransferAmount).ok
              /\ \A sym \in Symbols, e \in BOOLEAN, m \in Thresholds :
                    ~updateToken(sender, sym, e, m).ok
              /\ \A sym \in Symbols, f \in FeedInputs : ~setPriceFeed(sender, sym, f).ok
        /\ ~HasTokenRegistryRole(PRICE_FEEDER_ROLE, sender) =>
              \A sym \in Symbols, p \in Prices : ~updatePrice(sender, sym, p).ok

TokenStep ==
    /\ (last'.op \in AdminOperations /\ last'.ok)
          => /\ HasTokenRegistryRole(ADMIN_ROLE, last'.call.sender)
             /\ priceFeeds'[last'.call.symbol].lastPrice = priceFeeds[last'.call.symbol].lastPrice
    /\ (last'.op = "updatePrice" /\ last'.ok)
          => /\ HasTokenRegistryRole(PRICE_FEEDER_ROLE, last'.call.sender)
             /\ tokenInfos' = tokenInfos
    /\ (last'.op \in AdminOperations \cup {"updatePrice"} /\ ~last'.ok)
          => UNCHANGED <<tokenRegistryVars, tokenRegistry>>
    /\ \A sym \in Symbols :
          priceFeeds'[sym].lastPrice # priceFeeds[sym].lastPrice
             => /\ last'.op = "updatePrice"
                /\ HasTokenRegistryRole(PRICE_FEEDER_ROLE, last'.call.sender)
    /\ tokenInfos' # tokenInfos
          => /\ last'.op \in {"addToken", "updateToken"}
             /\ HasTokenRegistryRole(ADMIN_ROLE, last'.call.sender)

C26_RoleGatedRegistry == []TokenGuards /\ [][TokenStep]_vars

C26_Witness ==
    /\ last.op = "updatePrice" /\ ~last.ok
    /\ HasTokenRegistryRole(ADMIN_ROLE, last.call.sender)
    /\ ~HasTokenRegistryRole(PRICE_FEEDER_ROLE, last.call.sender)
    /\ \E a \in TokenCallers, sym \in ListedSymbols :
          /\ Registered(sym)
          /\ HasTokenRegistryRole(PRICE_FEEDER_ROLE, a)
          /\ ~HasTokenRegistryRole(ADMIN_ROLE, a)
          /\ ~updateToken(a, sym, FALSE, 5).ok
          /\ updatePrice(a, sym, UsdPrice).ok
          /\ ~updatePrice(last.call.sender, sym, UsdPrice).ok

(* C27: every holder of ADMIN_ROLE can grant and revoke the price-feeder    *)
(* role through grantPriceFeederRole and revokePriceFeederRole, also an    *)
(* administrator granted ADMIN_ROLE after deployment that does not hold    *)
(* the default admin role.                                                 *)
C27_AdminsManageFeeders ==
    [][/\ (last'.op = "grantPriceFeederRole"
             /\ HasTokenRegistryRole(ADMIN_ROLE, last'.call.sender))
          => /\ last'.ok
             /\ (last'.call.account \in tokenRegistryRoles'[PRICE_FEEDER_ROLE])
       /\ (last'.op = "revokePriceFeederRole"
             /\ HasTokenRegistryRole(ADMIN_ROLE, last'.call.sender))
          => /\ last'.ok
             /\ ~(last'.call.account \in tokenRegistryRoles'[PRICE_FEEDER_ROLE])]_vars

(* what the code does instead: the two calls succeed exactly for a caller  *)
(* holding both ADMIN_ROLE and DEFAULT_ADMIN_ROLE                           *)
DefaultAdminsManageFeeders ==
    [][(last'.op \in {"grantPriceFeederRole", "revokePriceFeederRole"})
          => /\ last'.ok = (/\ HasTokenRegistryRole(ADMIN_ROLE, last'.call.sender)
                            /\ HasTokenRegistryRole(DEFAULT_ADMIN_ROLE, last'.call.sender))
             /\ last'.ok => ((last'.call.account \in tokenRegistryRoles'[PRICE_FEEDER_ROLE])
                                = (last'.op = "grantPriceFeederRole"))
             /\ ~last'.ok => UNCHANGED tokenRegistryRoles]_vars

(* C28: for every identifier, the all-zero one included, verifyPayment      *)
(* reports exists = true, with the stored record, exactly when a payment   *)
(* or batch item with that identifier has been accepted, and exists =      *)
(* false with the all-zero record otherwise.                               *)
VerifyReports(ids) ==
    \A id \in ids :
        LET v == verifyPayment(id)
        IN  /\ v.exists = Accepted(id)
            /\ v.record = payments[id]
            /\ ~v.exists => v.record = ZeroRecord

C28_VerifyReportsAccepted == VerifyReports(PaymentIds)

NonZeroVerifyReportsAccepted == VerifyReports(PaymentIds \ {ZeroId})

(* C29: a stored payment record never changes and is never deleted, across *)
(* further payments, batches and the administrative calls.                 *)
RecordsKept(ids) ==
    \A id \in ids : Accepted(id) => payments'[id] = payments[id]

C29_RecordImmutable == [][RecordsKept(PaymentIds)]_vars

NonZeroRecordImmutable == [][RecordsKept(PaymentIds \ {ZeroId})]_vars

(* setTokenRegistry writes the processor's registry pointer and nothing else *)
RegistryChangeKeepsRecords ==
    [][(last'.op = "setTokenRegistry") => UNCHANGED <<ppVars, tokenVars>>]_vars

(* C30: a successful processPayment appends exactly one PaymentProcessed   *)
(* event and a successful batch of n items exactly n, one per item in item *)
(* order; each event carries the payer, payee, token, amount, fee and      *)
(* reference hash of the stored record of its identifier; a failed call    *)
(* appends none.                                                           *)
EventMatchesRecord(e) ==
    LET rec == payments'[e.paymentId]
    IN  /\ e.payer = rec.payer
        /\ e.payee = rec.payee
        /\ e.tokenAddress = rec.tokenAddress
        /\ e.amount = rec.amount
        /\ e.feeAmount = rec.feeAmount
        /\ e.referenceHash = rec.referenceHash

LogStep(ids) ==
    /\ (last'.op = "processPayment" /\ last'.ok)
          => /\ Len(last'.events) = 1
             /\ last'.events[1].paymentId = last'.call.paymentId
             /\ last'.call.paymentId \in ids => EventMatchesRecord(last'.events[1])
    /\ (last'.op = "processBatchPayment" /\ last'.ok)
          => /\ Len(last'.events) = Len(last'.call.paymentIds)
             /\ \A i \in 1..Len(last'.events) :
                   /\ last'.events[i].paymentId = last'.call.paymentIds[i]
                   /\ last'.call.paymentIds[i] \in ids => EventMatchesRecord(last'.events[i])
    /\ (last'.op \in {"processPayment", "processBatchPayment"} /\ ~last'.ok)
          => last'.events = <<>>

C30_EventsMatchRecords == [][LogStep(PaymentIds)]_vars

NonZeroEventsMatchRecords == [][LogStep(PaymentIds \ {ZeroId})]_vars

----------------------------------------------------------------------------
(* Audit events of the state-changing operations *)

(* the event carries every field of the record, under the field's name *)
Carries(e, rec) == \A f \in DOMAIN rec : f \in DOMAIN e /\ e[f] = rec[f]

(* the fields an event does carry are those of the record *)
Agrees(e, rec) == \A f \in DOMAIN e \cap DOMAIN rec : e[f] = rec[f]

CarriesFeed(e, feed) ==
    /\ e.feedAddress = feed.feedAddress
    /\ e.price = feed.lastPrice
    /\ "lastUpdateTimestamp" \in DOMAIN e
    /\ e.lastUpdateTimestamp = feed.lastUpdateTimestamp

TokenOperations == {"addToken", "updateToken"}
FeedOperations == {"setPriceFeed", "updatePrice"}

(* C31: every successful state-changing operation emits an audit event     *)
(* that carries every field of the resulting record: the token's record    *)
(* for addToken and updateToken, the price feed's record for setPriceFeed  *)
(* and updatePrice, and the new registry address for the processor's       *)
(* setTokenRegistry.                                                       *)
C31_EveryChangeAudited ==
    last.ok =>
        /\ last.op \in TokenOperations =>
              /\ Len(last.call.events) = 1
              /\ Carries(last.call.events[1], tokenInfos[last.call.symbol])
        /\ last.op \in FeedOperations =>
              /\ Len(last.call.events) = 1
              /\ CarriesFeed(last.call.events[1], priceFeeds[last.call.symbol])
        /\ last.op = "setTokenRegistry" =>
              \E i \in DOMAIN last.call.events :
                  last.call.events[i].tokenRegistry = tokenRegistry

(* what the code does: a successful addToken, updateToken, setPriceFeed or *)
(* updatePrice emits one event naming the symbol, and the fields the event *)
(* has agree with the resulting record; the event of addToken lacks        *)
(* isEnabled, that of updateToken the address and the decimals, those of   *)
(* the price feed the update time; setTokenRegistry emits nothing.         *)
EmittedFieldsAgree ==
    last.ok =>
        /\ last.op \in TokenOperations =>
              /\ Len(last.call.events) = 1
              /\ Agrees(last.call.events[1], tokenInfos[last.call.symbol])
        /\ last.op \in FeedOperations =>
              /\ Len(last.call.events) = 1
              /\ last.call.events[1].symbol = last.call.symbol
              /\ last.call.events[1].feedAddress = priceFeeds[last.call.symbol].feedAddress
              /\ last.call.events[1].price = priceFeeds[last.call.symbol].lastPrice
        /\ last.op = "setTokenRegistry" => last.call.events = <<>>

RegistryReplacedSilently ==
    /\ last.op = "setTokenRegistry" /\ last.ok
    /\ tokenRegistry = registry2
    /\ last.call.events = <<>>

----------------------------------------------------------------------------
(* Calls made from within the transfers of a batch *)
HookedBatchDone == last.op = "processBatchPayment" /\ last.ok

DistributedAsStaged ==
    /\ \A i \in 1..Len(last.call.fees) :
          last.call.fees[i] = payments[last.call.paymentIds[i]].feeAmount
    /\ SumSeq(last.call.paid) + last.call.totalFees = last.call.totalAmount

(* C32: during a processBatchPayment no call made from within one of its   *)
(* token transfers to processPayment, processBatchPayment,                 *)
(* updatePlatformFee or updateFeeCollector takes effect: the fee           *)
(* percentage and the fee collector are after the batch what they were     *)
(* before it, the fee used for each item's distribution is the fee         *)
(* recorded for it, and the payouts plus the fees add up to the total      *)
(* pulled.                                                                 *)
C32_BatchHoldsItsState ==
    HookedBatchDone =>
        /\ platformFeePercentage = last.call.feeBefore
        /\ feeCollector = last.call.collectorBefore
        /\ \A i \in 1..Len(last.call.entered) : last.call.entered[i] # ""
        /\ DistributedAsStaged

(* what the code does: nonReentrant rejects the two payment functions, and *)
(* a batch during which no setter was entered distributes what it staged   *)
ReenteredPaymentsRejected ==
    HookedBatchDone =>
        /\ \A i \in 1..Len(last.call.hooks) :
              last.call.hooks[i].kind \in {"processPayment", "processBatchPayment"}
                  => last.call.entered = <<"ReentrancyGuardReentrantCall">>
        /\ (\A i \in 1..Len(last.call.entered) : last.call.entered[i] # "")
              => /\ DistributedAsStaged
                 /\ platformFeePercentage = last.call.feeBefore
                 /\ feeCollector = last.call.collectorBefore

FeeChangedMidBatch ==
    /\ HookedBatchDone
    /\ platformFeePercentage # last.call.feeBefore
    /\ SumSeq(last.call.paid) + last.call.totalFees < last.call.totalAmount

PaymentReenteredMidBatch ==
    /\ HookedBatchDone
    /\ last.call.entered = <<"ReentrancyGuardReentrantCall">>

----------------------------------------------------------------------------
(* The fingerprint check against the identifier check *)

(* in the state (pay, proc) every request with an identifier of ids that   *)
(* passes 'identifier unused' passes 'fingerprint unseen': no seen         *)
(* fingerprint belongs to an identifier that still counts as unused        *)
UnusedImpliesUnseen(pay, proc, ids) ==
    \A h \in proc : h[1] \in ids => pay[h[1]].paymentId # ZeroId

(* the states in which a check is made: the state a call is entered in,    *)
(* and the staged states of the first loop of a batch                      *)
RedundantFor(ids) ==
    /\ UnusedImpliesUnseen(payments, processedPayments, ids)
    /\ \A b \in BatchRequests :
          (Len(b.paymentIds) = Len(b.payees) /\ Len(b.payees) = Len(b.amounts)
             /\ Len(b.amounts) = Len(b.referenceHashes))
          => LET staged == BatchStage(1, admin, b.paymentIds, b.payees, b.tokenAddress,
                              b.amounts,
                              [ok |-> TRUE, reason |-> "", payments |-> payments,
                               processedPayments |-> processedPayments,
                               totalAmount |-> 0, totalFees |-> 0,
                               refs |-> b.referenceHashes])
             IN  UnusedImpliesUnseen(staged.payments, staged.processedPayments, ids)

(* C33: the fingerprint check is redundant with the identifier check: in   *)
(* every reachable state and for every request, the all-zero identifier    *)
(* included, a processPayment call or batch item that passes 'identifier   *)
(* unused' also passes 'fingerprint unseen'.                               *)
C33_FingerprintRedundant == RedundantFor(PaymentIds)

(* what the code does: the same for every identifier but the all-zero one  *)
NonZeroFingerprintRedundant == RedundantFor(PaymentIds \ {ZeroId})

(* a replay of an accepted request with the all-zero identifier passes the *)
(* identifier check and is stopped by the fingerprint check alone          *)
ZeroIdStoppedByFingerprint ==
    /\ last.op = "processPayment" /\ ~last.ok
    /\ last.reason = "Payment already processed"
    /\ payments[ZeroId].payee # NullAddr

----------------------------------------------------------------------------
(* A second deployment of the processor *)
processor2 == "processor2"

(* the authorization branch of processPayment as the instance at address   *)
(* instance runs it, with that instance's role table: the signed digest is *)
(* built from the five request fields alone, neither address(this) nor     *)
(* block.chainid enters it                                                 *)
AuthorizedOn(instance, instanceRoles, sender, id, to, token, amount, ref, sig) ==
    IF sender \in instanceRoles[PAYMENT_MANAGER_ROLE]
    THEN [ok |-> TRUE, reason |-> ""]
    ELSE LET messageHash == MessageHash(id, to, token, amount, ref)
             rec == Recover(EthSignedMessageHash(messageHash), sig)
         IN  IF ~rec.ok THEN [ok |-> FALSE, reason |-> "ECDSAInvalidSignatureLength"]
             ELSE IF rec.signer \notin instanceRoles[PAYMENT_MANAGER_ROLE]
                  THEN [ok |-> FALSE, reason |-> "Invalid signature"]
                  ELSE [ok |-> TRUE, reason |-> ""]

(* role tables of the other deployment in which signer is payment manager *)
OtherRoleTables(signer) ==
    { [r \in RoleNames |-> IF r = PAYMENT_MANAGER_ROLE THEN {admin, signer} ELSE {admin}] }

AcceptedBySignature ==
    /\ last.op = "processPayment" /\ last.ok
    /\ ~HasRole(PAYMENT_MANAGER_ROLE, last.call.sender)

(* C34: a payment-manager signature is bound to one instance: a signature  *)
(* that has authorized a processPayment on this processor does not         *)
(* authorize the same request on another Payment Processor instance in     *)
(* which the signer also holds the payment-manager role.                   *)
C34_SignatureBoundToInstance ==
    AcceptedBySignature =>
        \A t \in OtherRoleTables(last.call.signature.signer) :
            LET c == last.call
            IN  ~AuthorizedOn(processor2, t, c.sender, c.paymentId, c.payee, c.tokenAddress,
                              c.amount, c.referenceHash, c.signature).ok

(* what the code does: the instance at hand decides by the same rule, and  *)
(* the signature is bound to the five signed fields only                   *)
SignatureBoundToRequest ==
    /\ \A sender \in Payers, q \in PaymentRequests :
          \A sig \in SignaturesFor(sender, q) :
              Authorized(sender, q.paymentId, q.payee, q.tokenAddress, q.amount,
                         q.referenceHash, sig)
              = AuthorizedOn(processor, roles, sender, q.paymentId, q.payee, q.tokenAddress,
                             q.amount, q.referenceHash, sig)
    /\ AcceptedBySignature =>
          /\ HasRole(PAYMENT_MANAGER_ROLE, last.call.signature.signer)
          /\ last.call.signature.digest =
                EthSignedMessageHash(MessageHash(last.call.paymentId, last.call.payee,
                    last.call.tokenAddress, last.call.amount, last.call.referenceHash))

SignatureReplayedElsewhere ==
    /\ AcceptedBySignature
    /\ last.call.signature.signer = paymentManager

----------------------------------------------------------------------------
(* Monotonic scheduling *)

(* one step, seen from the subscriptions of ids: the due date does not go  *)
(* back, and it moves only when the subscription is created or executed    *)
DueStep(ids) ==
    \A id \in ids :
        LET old == recurringPayments[id].nextPaymentDue
            new == recurringPayments'[id].nextPaymentDue
        IN  /\ new >= old
            /\ new # old =>
                  \/ /\ last'.op = "executeRecurringPayment" /\ last'.ok
                     /\ last'.call.id = id
                     /\ new > old
                  \/ /\ last'.op = "createRecurringPayment" /\ last'.ok
                     /\ last'.call.id = id
                     /\ recurringPayments[id] = ZeroSubscription

(* C35: for every subscription the next due date never decreases; once the *)
(* subscription is created it changes only by a successful                 *)
(* executeRecurringPayment on it, which strictly increases it;             *)
(* createRecurringPayment of other ids, updateRecurringPayment,            *)
(* cancelRecurringPayment and every failed call leave it unchanged.        *)
C35_MonotonicSchedule == [][DueStep(SubscriptionIds)]_vars

(* what the code does: the same for every id but the all-zero one *)
NonZeroMonotonicSchedule == [][DueStep(SubscriptionIds \ {ZeroId})]_vars

ZeroIdRescheduled ==
    /\ last.op = "createRecurringPayment" /\ last.ok
    /\ last.call.id = ZeroId
    /\ Len(userRecurringPayments[last.call.sender]) > 1

----------------------------------------------------------------------------
(* Catching up on an overdue subscription *)

(* the executions of subscription id that the processor has recorded: the  *)
(* derived payment identifier names the due date paid and the time         *)
ExecutionsOf(id) ==
    { p \in RecurringPaymentIds : payments[p].paymentId # ZeroId /\ p[1] = id }
DueDatePaid(p) == p[4]
ExecutedAtTime(p) == p[5]
DuesPaidAt(id, T) == { DueDatePaid(p) : p \in { e \in ExecutionsOf(id) : ExecutedAtTime(e) = T } }

(* the number of executions made at the present time that lead, one        *)
(* frequency apart, to the present due date                                *)
CaughtUp(id) ==
    LET sub == recurringPayments[id]
        paid(k) == \A j \in 1..k :
                      sub.nextPaymentDue - j * sub.frequency \in DuesPaidAt(id, now)
    IN  CHOOSE k \in 0..(MaxSchedulerTx + 1) :
            paid(k) /\ (k = MaxSchedulerTx + 1 \/ ~paid(k + 1))

(* the number of successes the claim predicts at time T from due date D *)
DueCount(D, f, T) == (T - D) \div f + 1

(* C36: with the time held at T and the frequency f unchanged, repeated    *)
(* executeRecurringPayment calls on an active, funded subscription whose   *)
(* due date is D <= T succeed exactly floor((T - D)/f) + 1 times and then  *)
(* fail as not yet due; and the executions of a subscription never exceed  *)
(* the due dates that have passed: each pays a due date of its own that is *)
(* not later than the time of the execution.                               *)
C36_CatchUpCount ==
    /\ \A id \in SubscriptionIds :
          (Executed /\ last.call.id = id) =>
              LET sub == recurringPayments[id]
                  n == CaughtUp(id)
                  D == sub.nextPaymentDue - n * sub.frequency
              IN  /\ n >= 1
                  /\ D <= now
                  /\ n <= DueCount(D, sub.frequency, now)
                  /\ (n = DueCount(D, sub.frequency, now))
                        <=> (executeRecurringPayment(id).reason = "Payment not due yet")
                  /\ (n < DueCount(D, sub.frequency, now)) <=> ExecuteChecksPass(id)
    /\ \A id \in SubscriptionIds :
          /\ \A p \in ExecutionsOf(id) : DueDatePaid(p) <= ExecutedAtTime(p)
          /\ \A p, q \in ExecutionsOf(id) : DueDatePaid(p) = DueDatePaid(q) => p = q

C36_Witness ==
    /\ Executed
    /\ CaughtUp(last.call.id) = 2
    /\ executeRecurringPayment(last.call.id).reason = "Payment not due yet"
    /\ now = 3

----------------------------------------------------------------------------
(* The payment identifiers of the executions *)
Recorded == { p \in RecurringPaymentIds : payments[p].paymentId # ZeroId }

DuplicateRejections == {"Payment ID already used", "Payment already processed"}

----------------------------------------------------------------------------
(* One payment per signature *)
Submitters == Payers \cup Callers

(* the two duplicate checks of processPayment let the request through *)
Fresh(q) ==
    /\ payments[q.paymentId].paymentId = ZeroId
    /\ PaymentHash(q.paymentId, q.payee, q.tokenAddress, q.amount) \notin processedPayments

(* the signatures a call can present *)
PresentedSignatures ==
    UNION { SignaturesFor(sender, q) : sender \in Payers, q \in PaymentRequests }

(* a step in which a payment is accepted on a signature leaves the request *)
(* spent: the same request with the same signature is rejected whoever     *)
(* submits it                                                              *)
SignatureSpent ==
    (last'.op = "processPayment" /\ last'.ok
        /\ last'.call.sender \notin roles'[PAYMENT_MANAGER_ROLE]) =>
        \A q \in PaymentRequests, sig \in PresentedSignatures :
            (/\ q = Request(last'.call.paymentId, last'.call.payee, last'.call.tokenAddress,
                            last'.call.amount, last'.call.referenceHash)
             /\ sig = last'.call.signature)
            => /\ ~Fresh(q)'
               /\ \A sender \in Submitters :
                     ~(processPayment(sender, q.paymentId, q.payee, q.tokenAddress, q.amount,
                                      q.referenceHash, sig).ok)'

(* a request the duplicate checks reject is rejected ever after; a step    *)
(* that leaves the two mappings and the clock alone leaves Fresh alone     *)
StaysSpent ==
    \/ UNCHANGED <<payments, processedPayments, now>>
    \/ \A q \in PaymentRequests : ~Fresh(q) => ~Fresh(q)'

(* C38: a payment-manager signature authorizes at most one successful      *)
(* payment on the processor: once a processPayment presenting the          *)
(* signature of a tuple (paymentId, payee, token, amount, referenceHash),  *)
(* the all-zero paymentId included, has succeeded, every later call for    *)
(* that tuple with that signature fails, whoever submits it.               *)
C38_OnePaymentPerSignature == [][SignatureSpent /\ StaysSpent]_vars

C38_Witness ==
    /\ AcceptedBySignature
    /\ last.call.paymentId = ZeroId
    /\ last.call.signature.signer = paymentManager
    /\ last.call.sender = payer

----------------------------------------------------------------------------
(* Payments and the state of the Token Registry *)
RegistryChanges ==
    \/ tokenInfos' # tokenInfos
    \/ priceFeeds' # priceFeeds
    \/ supportedTokens' # supportedTokens
    \/ tokenRegistry' # tokenRegistry

(* the outcome of every payment call, with the state it stages, is after   *)
(* the step what it was before it                                          *)
SameOutcomes ==
    /\ \A sender \in Payers, q \in ListedRequests \cup PaymentRequests :
          \A sig \in SignaturesFor(sender, q) :
              processPayment(sender, q.paymentId, q.payee, q.tokenAddress, q.amount,
                             q.referenceHash, sig)'
              = processPayment(sender, q.paymentId, q.payee, q.tokenAddress, q.amount,
                               q.referenceHash, sig)
    /\ \A sender \in Payers, b \in HookedBatches :
          processBatchPayment(sender, b.paymentIds, b.payees, b.tokenAddress, b.amounts,
                              b.referenceHashes)'
          = processBatchPayment(sender, b.paymentIds, b.payees, b.tokenAddress, b.amounts,
                                b.referenceHashes)

MockListed == tokenInfos[MockListing].tokenAddress = mockToken

(* C39: the outcome of processPayment and of processBatchPayment does not  *)
(* depend on the state of the Token Registry: whether the token is         *)
(* registered, enabled or disabled, and what its minimum transfer amount   *)
(* is, and which registry the processor points to; a step that changes     *)
(* any of these changes the outcome of no payment call.                    *)
C39_RegistryIndependent == [][RegistryChanges => SameOutcomes]_vars

(* a payment of 50 accepted with the token listed, disabled, with a        *)
(* minimum of 1000 *)
C39_Witness ==
    /\ last.op \in {"processPayment", "processBatchPayment"} /\ last.ok
    /\ MockListed
    /\ ~tokenInfos[MockListing].isEnabled
    /\ tokenInfos[MockListing].minimumTransferAmount = HighThreshold
    /\ payments[<<"p1">>].amount = 50

PaidUnlisted ==
    /\ last.op = "processPayment" /\ last.ok
    /\ ~MockListed
    /\ tokenRegistry = registry2

(* C40: for every invoice, at most one call of processInvoicePayment reaches a *)
(* successful on-chain payment, whatever the interleaving of the calls and    *)
(* whether or not a status write fails and the call is made again             *)
PaymentsSettledFor(invoiceId) == {s \in settled : s.invoiceId = invoiceId}

NoInvoicePaymentSettles ==
    /\ settled = {}
    /\ \A c \in Calls : requests[c].pc # "done" /\ ~requests[c].result.success

====
